---- MODULE Spec2Model ----
(***************************************************************************)
(* A model of the EAR (EAT Attestation Results) crate: the extension       *)
(* registry of src/extension.rs and the dual-mode (JSON / CBOR) codec of   *)
(* src/ear.rs, src/appraisal.rs, src/trust/vector.rs, src/raw.rs.          *)
(***************************************************************************)
EXTENDS Integers, Sequences, FiniteSets, TLC

\* ------------------------------------------------------------------------
\* Bounds of the model
\* ------------------------------------------------------------------------
MaxOps == 4
MaxCalls == 4
MaxDecls == 3
MaxItems == 2

\* ------------------------------------------------------------------------
\* Values.  Every value (an ExtensionValue, a RawValue or a value on the
\* wire) is a record of one shape, so that any two of them can be compared:
\*   kind  the variant, s a text payload, n a numeric payload,
\*   b a byte-string payload, items the elements of an array, or the
\*   key, value, key, value, ... of a map, or the one content of a tag.
\* ------------------------------------------------------------------------
Val(kind, s, n, b, items) == [kind |-> kind, s |-> s, n |-> n, b |-> b, items |-> items]

\* Option<T>: None is the empty sequence, Some(x) the one-element sequence.
None == <<>>
Some(x) == <<x>>

\* ExtensionKind
ExtensionKind == {"Unset", "Bool", "String", "Bytes", "Integer", "Float", "Array", "Map"}

\* ExtensionValue constructors
Unset == Val("Unset", "", 0, <<>>, <<>>)
BoolV(x) == Val("Bool", "", x, <<>>, <<>>)
StringV(s) == Val("String", s, 0, <<>>, <<>>)
BytesV(b) == Val("Bytes", "", 0, b, <<>>)
IntegerV(n) == Val("Integer", "", n, <<>>, <<>>)
FloatV(n) == Val("Float", "", n, <<>>, <<>>)
ArrayV(items) == Val("Array", "", 0, <<>>, items)
MapV(items) == Val("Map", "", 0, <<>>, items)

\* Values on the wire (the data model shared by JSON and CBOR)
WNull == Val("null", "", 0, <<>>, <<>>)
WBool(x) == Val("bool", "", x, <<>>, <<>>)
WText(s) == Val("text", s, 0, <<>>, <<>>)
WBytes(b) == Val("bytes", "", 0, b, <<>>)
WInt(n) == Val("int", "", n, <<>>, <<>>)
WFloat(n) == Val("float", "", n, <<>>, <<>>)
WArray(items) == Val("array", "", 0, <<>>, items)
WMap(items) == Val("map", "", 0, <<>>, items)
WTag(t, v) == Val("tag", "", t, <<>>, <<v>>)

\* Results
Ok(v) == [ok |-> TRUE, err |-> "", value |-> v]
Err(e) == [ok |-> FALSE, err |-> e, value |-> Unset]

\* rec.f = r?  and  rec.f = Some(r?): the record with the field set to the
\* value of r, or the error of r.
Assign(rec, f, r) == IF r.ok THEN Ok([rec EXCEPT ![f] = r.value]) ELSE r
AssignSome(rec, f, r) == IF r.ok THEN Ok([rec EXCEPT ![f] = Some(r.value)]) ELSE r

\* v?; r  : the error of v, or else r.
Checked(v, r) == IF v.ok THEN r ELSE v

\* ------------------------------------------------------------------------
\* base64: URL-safe, unpadded text encoding of byte strings, on the byte
\* strings of the model.
\* ------------------------------------------------------------------------
DeadBeef == <<222, 173, 190, 239>>
Bytes8 == <<1, 2, 3, 4, 5, 6, 7, 8>>
B64Table == { <<DeadBeef, "3q2-7w">>, <<Bytes8, "AQIDBAUGBwg">>, << <<>>, "" >> }

B64Encode(b) == (CHOOSE p \in B64Table : p[1] = b)[2]
B64Decode(s) ==
    IF \E p \in B64Table : p[2] = s
    THEN Ok(BytesV((CHOOSE p \in B64Table : p[2] = s)[1]))
    ELSE Err("base64 decode")

\* ------------------------------------------------------------------------
\* ExtensionValue (src/extension.rs)
\* ------------------------------------------------------------------------
kind(v) == v.kind

Is(v, k) == kind(v) = k

can_convert(v, k) ==
    \/ (kind(v) = "String" /\ k = "Bytes")
    \/ (kind(v) = "Bytes" /\ k = "String")

convert(v, k) ==
    IF k = "Bytes"
    THEN IF kind(v) = "String"
         THEN B64Decode(v.s)
         ELSE Err("cannot convert")
    ELSE Err("cannot convert into from any other variant")

\* ExtensionValue::deserialize: deserialize_any with ValueVisitor, which has
\* no visit_enum (a CBOR tag is an error).
RECURSIVE ValueVisitor(_)
RECURSIVE VisitItems(_)
VisitItems(ws) ==
    IF ws = <<>> THEN Ok(Unset)
    ELSE LET h == ValueVisitor(ws[1])
             t == VisitItems(Tail(ws))
         IN IF ~h.ok THEN h
            ELSE IF ~t.ok THEN t
            ELSE [ok |-> TRUE, err |-> "", value |-> ArrayV(<<h.value>> \o t.value.items)]

ValueVisitor(w) ==
    CASE w.kind = "null" -> Ok(Unset)
      [] w.kind = "bool" -> Ok(BoolV(w.n))
      [] w.kind = "int" -> Ok(IntegerV(w.n))
      [] w.kind = "float" -> Ok(FloatV(w.n))
      [] w.kind = "text" -> Ok(StringV(w.s))
      [] w.kind = "bytes" -> Ok(BytesV(w.b))
      [] w.kind = "array" ->
            LET r == VisitItems(w.items)
            IN IF r.ok THEN Ok(ArrayV(r.value.items)) ELSE r
      [] w.kind = "map" ->
            LET r == VisitItems(w.items)
            IN IF r.ok THEN Ok(MapV(r.value.items)) ELSE r
      [] OTHER -> Err("invalid type")

\* Vec<(ExtensionValue, ExtensionValue)>::deserialize: a sequence whose
\* elements are 2-element sequences.
RECURSIVE PairSeq(_)
PairSeq(ws) ==
    IF ws = <<>> THEN Ok(Unset)
    ELSE IF ws[1].kind # "array" \/ Len(ws[1].items) # 2 THEN Err("invalid type")
    ELSE LET h == VisitItems(ws[1].items)
             t == PairSeq(Tail(ws))
         IN IF ~h.ok THEN h
            ELSE IF ~t.ok THEN t
            ELSE [ok |-> TRUE, err |-> "", value |-> ArrayV(h.value.items \o t.value.items)]

\* Bytes::deserialize: base64 text in human-readable mode, a byte string
\* in binary mode.
BytesDeserialize(w, hr) ==
    IF hr
    THEN IF w.kind = "text" THEN B64Decode(w.s) ELSE Err("invalid type")
    ELSE IF w.kind = "bytes" THEN Ok(BytesV(w.b)) ELSE Err("invalid type")

\* map.next_value::<T>() for the T that visit_map_entry_by_* chooses from
\* the declared kind of the slot.
next_value(k, w, hr) ==
    CASE k = "Unset" -> Err("invalid extension")
      [] k = "Bool" -> IF w.kind = "bool" THEN Ok(BoolV(w.n)) ELSE Err("invalid type")
      [] k = "String" -> IF w.kind = "text" THEN Ok(StringV(w.s)) ELSE Err("invalid type")
      [] k = "Bytes" -> BytesDeserialize(w, hr)
      [] k = "Integer" -> IF w.kind = "int" THEN Ok(IntegerV(w.n)) ELSE Err("invalid type")
      [] k = "Float" ->
            IF w.kind = "float" \/ (hr /\ w.kind = "int")
            THEN Ok(FloatV(w.n)) ELSE Err("invalid type")
      [] k = "Array" ->
            IF w.kind = "array"
            THEN LET r == VisitItems(w.items)
                 IN IF r.ok THEN Ok(ArrayV(r.value.items)) ELSE r
            ELSE Err("invalid type")
      [] k = "Map" ->
            IF w.kind = "array"
            THEN LET r == PairSeq(w.items)
                 IN IF r.ok THEN Ok(MapV(r.value.items)) ELSE r
            ELSE Err("invalid type")

\* ------------------------------------------------------------------------
\* Extensions (src/extension.rs).  A registry e is a record of
\*   by_key, by_name  the two BTreeMaps; each maps to the index of a slot,
\*                    the Rc<RefCell<ExtensionEntry>> both maps share
\*   slots            the ExtensionEntry cells, [kind, value]
\*   collected        BTreeMap<CollectedKey, ExtensionValue>
\* Every method is an operator from the registry before the call to the
\* registry after it (ext) and the result of the call (res).
\* ------------------------------------------------------------------------
Names == {"foo", "bar"}
Keys == {1, 2}
NameOrder == <<"bar", "foo">>
KeyOrder == <<1, 2>>

\* CollectedKey
CKey(key) == [t |-> "Key", key |-> key, name |-> ""]
CName(name) == [t |-> "Name", key |-> 0, name |-> name]

ExtensionEntry(k, v) == [kind |-> k, value |-> v]

\* Extensions::new
NewExtensions == [by_key |-> << >>, by_name |-> << >>, slots |-> << >>, collected |-> << >>]

Done(e, r) == [ext |-> e, res |-> r]

have_key(e, key) == key \in DOMAIN e.by_key
have_name(e, name) == name \in DOMAIN e.by_name

get_by_key(e, key) ==
    IF have_key(e, key) THEN Some(e.slots[e.by_key[key]].value) ELSE None
get_by_name(e, name) ==
    IF have_name(e, name) THEN Some(e.slots[e.by_name[name]].value) ELSE None

get_kind_by_key(e, key) ==
    IF have_key(e, key) THEN e.slots[e.by_key[key]].kind ELSE "Unset"
get_kind_by_name(e, name) ==
    IF have_name(e, name) THEN e.slots[e.by_name[name]].kind ELSE "Unset"

\* impl PartialEq for Extensions: the first loop, over self.by_name
NamesWithin(a, b) ==
    \A name \in DOMAIN a.by_name :
        /\ get_by_name(b, name) # None
        /\ a.slots[a.by_name[name]].value = get_by_name(b, name)[1]

\* impl PartialEq for Extensions: the second loop, over self.by_key
KeysWithin(a, b) ==
    \A key \in DOMAIN a.by_key :
        /\ get_by_key(b, key) # None
        /\ a.slots[a.by_key[key]].value = get_by_key(b, key)[1]

\* impl PartialEq for Extensions: a == b
ExtensionsEq(a, b) == NamesWithin(a, b) /\ KeysWithin(a, b)

\* A register that checks the name alone.
AlreadyRegistered_NameOnly(e, name, key) ==
    IF have_name(e, name) THEN "name already registered" ELSE ""

\* register, lines 255-265: the name, then the key, must be free.
AlreadyRegistered(e, name, key) ==
    IF have_name(e, name) THEN "name already registered"
    ELSE IF have_key(e, key) THEN "key already registered"
    ELSE ""

\* register, lines 277-280: the collected value under the key, or else
\* under the name.
CollectedFor(e, name, key) ==
    IF CKey(key) \in DOMAIN e.collected THEN Some(e.collected[CKey(key)])
    ELSE IF CName(name) \in DOMAIN e.collected THEN Some(e.collected[CName(name)])
    ELSE None

\* A register that checks the collected value and forgets to keep it.
EntryValue_NotKept(c, k) ==
    IF c = None \/ Is(c[1], k) THEN Ok(Unset)
    ELSE IF can_convert(c[1], k) THEN convert(c[1], k)
    ELSE Err("kind mismatch")

\* register, lines 281-303: the value the new entry starts with.
EntryValue(c, k) ==
    IF c = None THEN Ok(Unset)
    ELSE IF Is(c[1], k) THEN Ok(c[1])
    ELSE IF can_convert(c[1], k) THEN convert(c[1], k)
    ELSE Err("kind mismatch")

\* A register that gives each map an entry of its own.
InsertEntry_Cloned(e, name, key, entry) ==
    [e EXCEPT !.slots = e.slots \o <<entry, entry>>,
              !.by_key = (key :> (Len(e.slots) + 1)) @@ e.by_key,
              !.by_name = (name :> (Len(e.slots) + 2)) @@ e.by_name]

\* register, lines 267 and 305-306: one entry, shared by the two maps.
InsertEntry(e, name, key, entry) ==
    [e EXCEPT !.slots = Append(e.slots, entry),
              !.by_key = (key :> (Len(e.slots) + 1)) @@ e.by_key,
              !.by_name = (name :> (Len(e.slots) + 1)) @@ e.by_name]

register(e, name, key, k) ==
    IF AlreadyRegistered(e, name, key) # ""
    THEN Done(e, Err(AlreadyRegistered(e, name, key)))
    ELSE LET r == EntryValue(CollectedFor(e, name, key), k)
         IN IF r.ok
            THEN Done(InsertEntry(e, name, key, ExtensionEntry(k, r.value)), Ok(Unset))
            ELSE Done(e, r)

\* set_by_key / set_by_name: the entry must exist and the value be of its
\* declared kind; then the value is stored in the shared entry.
\* A setter that does not check the kind.
KindAccepted_Any(value, k) == TRUE

KindAccepted(value, k) == Is(value, k)

StoreValue(e, slot, value) == [e EXCEPT !.slots[slot].value = value]

set_by_key(e, key, value) ==
    IF ~have_key(e, key) THEN Done(e, Err("not registered"))
    ELSE IF ~KindAccepted(value, e.slots[e.by_key[key]].kind)
    THEN Done(e, Err("kind mismatch"))
    ELSE Done(StoreValue(e, e.by_key[key], value), Ok(Unset))

set_by_name(e, name, value) ==
    IF ~have_name(e, name) THEN Done(e, Err("not registered"))
    ELSE IF ~KindAccepted(value, e.slots[e.by_name[name]].kind)
    THEN Done(e, Err("kind mismatch"))
    ELSE Done(StoreValue(e, e.by_name[name], value), Ok(Unset))

\* visit_map_entry_by_name / _by_key: with no entry for the identifier the
\* value is decoded as an ExtensionValue and collected; with an entry it is
\* decoded as the entry's declared kind and set.
Collect(e, id, value) == [e EXCEPT !.collected = (id :> value) @@ e.collected]

visit_map_entry_by_name(e, name, w, hr) ==
    IF ~have_name(e, name)
    THEN LET v == ValueVisitor(w)
         IN IF v.ok THEN Done(Collect(e, CName(name), v.value), Ok(Unset)) ELSE Done(e, v)
    ELSE LET v == next_value(get_kind_by_name(e, name), w, hr)
         IN IF v.ok THEN set_by_name(e, name, v.value) ELSE Done(e, v)

visit_map_entry_by_key(e, key, w, hr) ==
    IF ~have_key(e, key)
    THEN LET v == ValueVisitor(w)
         IN IF v.ok THEN Done(Collect(e, CKey(key), v.value), Ok(Unset)) ELSE Done(e, v)
    ELSE LET v == next_value(get_kind_by_key(e, key), w, hr)
         IN IF v.ok THEN set_by_key(e, key, v.value) ELSE Done(e, v)

\* serialize_to_map_by_name / _by_key: the entries handed to
\* map.serialize_entry, in the order of the BTreeMap.
\* A serializer that writes unset slots too.
Skipped_Never(value) == FALSE

Skipped(value) == Is(value, "Unset")

RECURSIVE EntriesByName(_, _)
EntriesByName(e, names) ==
    IF names = <<>> THEN <<>>
    ELSE (IF have_name(e, names[1]) /\ ~Skipped(e.slots[e.by_name[names[1]]].value)
          THEN << [id |-> CName(names[1]), value |-> e.slots[e.by_name[names[1]]].value] >>
          ELSE <<>>) \o EntriesByName(e, Tail(names))

RECURSIVE EntriesByKey(_, _)
EntriesByKey(e, keys) ==
    IF keys = <<>> THEN <<>>
    ELSE (IF have_key(e, keys[1]) /\ ~Skipped(e.slots[e.by_key[keys[1]]].value)
          THEN << [id |-> CKey(keys[1]), value |-> e.slots[e.by_key[keys[1]]].value] >>
          ELSE <<>>) \o EntriesByKey(e, Tail(keys))

serialize_to_map_by_name(e) == EntriesByName(e, NameOrder)
serialize_to_map_by_key(e) == EntriesByKey(e, KeyOrder)

\* ------------------------------------------------------------------------
\* Register and Profile (src/extension.rs)
\* ------------------------------------------------------------------------
RegisterEntry(name, key, k) == [name |-> name, key |-> key, kind |-> k]

\* Register::new
NewRegister == [entries |-> <<>>, names |-> {}, keys |-> {}]

\* Register::register: the name and the key are looked up in names and
\* keys, and the entry is pushed on entries.
RegisterRegister(reg, name, key, k) ==
    IF name \in reg.names THEN Done(reg, Err("name already registered"))
    ELSE IF key \in reg.keys THEN Done(reg, Err("key already registered"))
    ELSE Done([reg EXCEPT !.entries = Append(reg.entries, RegisterEntry(name, key, k))],
              Ok(Unset))

\* Profile::new
NewProfile(id) == [id |-> id, ear |-> NewRegister, appraisal |-> NewRegister]

\* Profile::register_ear_extension, Profile::register_appraisal_extension:
\* the profile after the call, and the result of the call.
register_ear_extension(p, name, key, k) ==
    Done([p EXCEPT !.ear = RegisterRegister(p.ear, name, key, k).ext],
         RegisterRegister(p.ear, name, key, k).res)

register_appraisal_extension(p, name, key, k) ==
    Done([p EXCEPT !.appraisal = RegisterRegister(p.appraisal, name, key, k).ext],
         RegisterRegister(p.appraisal, name, key, k).res)

\* for entry in register.clone() { extensions.register(..)? }: the
\* registry after the loop, and Ok or the error that ended it.
RECURSIVE RegisterAll(_, _)
RegisterAll(e, entries) ==
    IF entries = <<>> THEN Done(e, Ok(Unset))
    ELSE IF ~register(e, entries[1].name, entries[1].key, entries[1].kind).res.ok
    THEN register(e, entries[1].name, entries[1].key, entries[1].kind)
    ELSE RegisterAll(register(e, entries[1].name, entries[1].key, entries[1].kind).ext,
                     Tail(entries))

\* A loop that populates the first submod only.
RECURSIVE PopulateSubmods_FirstOnly(_, _)
PopulateSubmods_FirstOnly(submods, entries) ==
    IF submods = <<>> THEN Done(submods, Ok(Unset))
    ELSE IF ~RegisterAll(submods[1][2].extensions, entries).res.ok
    THEN Done(submods, RegisterAll(submods[1][2].extensions, entries).res)
    ELSE Done(<< <<submods[1][1],
                   [submods[1][2] EXCEPT !.extensions =
                       RegisterAll(submods[1][2].extensions, entries).ext]>> >>
              \o Tail(submods), Ok(Unset))

\* for (_, appraisal) in ear.submods.iter_mut() { .. }: the submods after
\* the loop, and Ok or the error that ended it.  The registrations made
\* before an error stay.
RECURSIVE PopulateSubmods(_, _)
PushFront(entry, d) == Done(<<entry>> \o d.ext, d.res)

PopulateSubmods(submods, entries) ==
    IF submods = <<>> THEN Done(submods, Ok(Unset))
    ELSE IF ~RegisterAll(submods[1][2].extensions, entries).res.ok
    THEN Done(<< <<submods[1][1],
                   [submods[1][2] EXCEPT !.extensions =
                       RegisterAll(submods[1][2].extensions, entries).ext]>> >>
              \o Tail(submods),
              RegisterAll(submods[1][2].extensions, entries).res)
    ELSE PushFront(<<submods[1][1],
                     [submods[1][2] EXCEPT !.extensions =
                         RegisterAll(submods[1][2].extensions, entries).ext]>>,
                   PopulateSubmods(Tail(submods), entries))

\* Profile::populate_ear_extensions: the Ear after the call and its result
populate_ear_extensions(p, e) ==
    IF p.id # e.profile THEN Done(e, Err("ID mismatch"))
    ELSE IF ~RegisterAll(e.extensions, p.ear.entries).res.ok
    THEN Done([e EXCEPT !.extensions = RegisterAll(e.extensions, p.ear.entries).ext],
              RegisterAll(e.extensions, p.ear.entries).res)
    ELSE Done([e EXCEPT !.extensions = RegisterAll(e.extensions, p.ear.entries).ext,
                        !.submods = PopulateSubmods(e.submods, p.appraisal.entries).ext],
              PopulateSubmods(e.submods, p.appraisal.entries).res)

\* ------------------------------------------------------------------------
\* Bytes (crate::base64): written as base64 text in human-readable mode
\* and as a byte string in binary mode.
\* ------------------------------------------------------------------------
BytesSerialize(b, hr) == IF hr THEN WText(B64Encode(b)) ELSE WBytes(b)

\* A definite-length map: serialize_map(Some(len)).  WMap is the map
\* written by serialize_map(None); its field n is 0.
WMapN(items) == Val("map", "", Len(items) \div 2, <<>>, items)

\* The name of a field in human-readable mode, its key in binary mode.
Field(hr, name, key) == IF hr THEN WText(name) ELSE WInt(key)

\* ------------------------------------------------------------------------
\* TrustTier (src/trust/tier.rs).  The tiers in their derived order.
\* ------------------------------------------------------------------------
TrustTier == <<"none", "affirming", "warning", "contraindicated">>

TierToI8(t) ==
    CASE t = "none" -> 0
      [] t = "affirming" -> 2
      [] t = "warning" -> 32
      [] t = "contraindicated" -> 96

TierFromI8(n) ==
    CASE n = 0 -> Ok("none")
      [] n = 2 -> Ok("affirming")
      [] n = 32 -> Ok("warning")
      [] n = 96 -> Ok("contraindicated")
      [] OTHER -> Err("Unexpected TrustTier value")

\* The names of the model are lower-case already.
TierFromStr(s) ==
    IF \E i \in 1..Len(TrustTier) : TrustTier[i] = s
    THEN Ok(s) ELSE Err("Unexpected TrustTier value")

TrustTierSerialize(t, hr) == IF hr THEN WText(t) ELSE WInt(TierToI8(t))

\* deserialize_any with TrustTierVisitor, in either mode
TrustTierDeserialize(w) ==
    CASE w.kind = "text" -> TierFromStr(w.s)
      [] w.kind = "int" ->
            IF w.n < -128 \/ w.n > 127
            THEN Err("Unexpected TrustTier value") ELSE TierFromI8(w.n)
      [] OTHER -> Err("invalid type")

\* ------------------------------------------------------------------------
\* TrustClaim and TrustVector (src/trust/claim.rs, src/trust/vector.rs).
\* A claim is its value: Option<i8>.  A vector is its eight claims in the
\* order of by_key.
\* ------------------------------------------------------------------------
ClaimTags ==
    <<"instance-identity", "configuration", "executables", "file-system",
      "hardware", "runtime-opaque", "storage-opaque", "sourced-data">>

NewTrustVector == [i \in 1..Len(ClaimTags) |-> None]

\* An is_set that takes a claim of value 0 for one that makes no claim.
is_set_NonZero(c) == c # None /\ c[1] # 0

is_set(c) == c # None

ClaimValue(c) == IF c = None THEN 0 ELSE c[1]

\* PartialEq<TrustClaim> for TrustClaim compares value()
ClaimEq(c, d) == ClaimValue(c) = ClaimValue(d)

TrustVectorEq(tv, tw) == \A i \in DOMAIN tv : ClaimEq(tv[i], tw[i])

\* TrustVectorVisitor::visit_map: next_entry::<&str, i8> or ::<i32, i8>
RECURSIVE TrustVectorVisit(_, _, _)
TrustVectorVisit(items, tv, hr) ==
    IF items = <<>> THEN Ok(tv)
    ELSE IF \/ items[1].kind # (IF hr THEN "text" ELSE "int")
            \/ items[2].kind # "int"
            \/ items[2].n < -128 \/ items[2].n > 127
    THEN Err("invalid type")
    ELSE IF hr /\ \A i \in DOMAIN ClaimTags : ClaimTags[i] # items[1].s
    THEN Err("invalid name")
    ELSE IF ~hr /\ items[1].n \notin 0..(Len(ClaimTags) - 1)
    THEN Err("invalid key")
    ELSE LET i == IF hr THEN CHOOSE j \in DOMAIN ClaimTags : ClaimTags[j] = items[1].s
                  ELSE items[1].n + 1
         IN TrustVectorVisit(Tail(Tail(items)), [tv EXCEPT ![i] = Some(items[2].n)], hr)

TrustVectorDeserialize(w, hr) ==
    IF w.kind = "map" THEN TrustVectorVisit(w.items, NewTrustVector, hr)
    ELSE Err("invalid type")

\* The static claim descriptions of src/trust/claim.rs, in the order of
\* their definition: INSTANCE_CLAIM_DESC, CONFIG_CLAIM_DESC, ...
ClaimDescs ==
    << [key |-> 0, name |-> "instance-identity"],
       [key |-> 1, name |-> "configuration"],
       [key |-> 2, name |-> "executables"],
       [key |-> 3, name |-> "file-system"],
       [key |-> 4, name |-> "hardware"],
       [key |-> 5, name |-> "runtime-opaque"],
       [key |-> 6, name |-> "storage-opaque"],
       [key |-> 7, name |-> "sourced-data"] >>

\* TryFrom<&str> for TrustClaim: the description the name selects
ClaimTryFromStr(name) ==
    CASE name = "instance-identity" -> Ok(ClaimDescs[1])
      [] name = "configuration" -> Ok(ClaimDescs[2])
      [] name = "executables" -> Ok(ClaimDescs[3])
      [] name = "file-system" -> Ok(ClaimDescs[4])
      [] name = "hardware" -> Ok(ClaimDescs[5])
      [] name = "runtime-opaque" -> Ok(ClaimDescs[6])
      [] name = "storage-opaque" -> Ok(ClaimDescs[7])
      [] name = "sourced-data" -> Ok(ClaimDescs[8])
      [] OTHER -> Err("invalid name")

\* TrustVector::new: the description of each field of the struct, in the
\* order of the fields (instance_identity, configuration, ...).
FieldDescs ==
    << ClaimTryFromStr("instance-identity").value,
       ClaimTryFromStr("configuration").value,
       ClaimTryFromStr("executables").value,
       ClaimTryFromStr("file-system").value,
       ClaimTryFromStr("hardware").value,
       ClaimTryFromStr("runtime-opaque").value,
       ClaimTryFromStr("storage-opaque").value,
       ClaimTryFromStr("sourced-data").value >>

\* The TrustClaim held by field f of the vector: its value, and the key()
\* and tag() of its description.
TrustClaim(tv, f) == [value |-> tv[f], key |-> FieldDescs[f].key, tag |-> FieldDescs[f].name]

\* A tier() with the same bounds on both sides of zero.
tier_Symmetric(c) ==
    IF ClaimValue(c) >= -1 /\ ClaimValue(c) <= 1 THEN "none"
    ELSE IF ClaimValue(c) > -32 /\ ClaimValue(c) < 32 THEN "affirming"
    ELSE IF ClaimValue(c) > -96 /\ ClaimValue(c) < 96 THEN "warning"
    ELSE "contraindicated"

\* TrustClaim::tier, of the claim value c: (-1..=1), (-32..32), (-96..96)
tier(c) ==
    IF ClaimValue(c) >= -1 /\ ClaimValue(c) <= 1 THEN "none"
    ELSE IF ClaimValue(c) >= -32 /\ ClaimValue(c) < 32 THEN "affirming"
    ELSE IF ClaimValue(c) >= -96 /\ ClaimValue(c) < 96 THEN "warning"
    ELSE "contraindicated"

\* The same table with the arms of keys 2 and 3 exchanged.
by_key_Swapped(tv, key) ==
    CASE key = 0 -> Ok(TrustClaim(tv, 1))
      [] key = 1 -> Ok(TrustClaim(tv, 2))
      [] key = 2 -> Ok(TrustClaim(tv, 4))
      [] key = 3 -> Ok(TrustClaim(tv, 3))
      [] key = 4 -> Ok(TrustClaim(tv, 5))
      [] key = 5 -> Ok(TrustClaim(tv, 6))
      [] key = 6 -> Ok(TrustClaim(tv, 7))
      [] key = 7 -> Ok(TrustClaim(tv, 8))
      [] OTHER -> Err("invalid key")

\* TrustVector::by_key
by_key(tv, key) ==
    CASE key = 0 -> Ok(TrustClaim(tv, 1))
      [] key = 1 -> Ok(TrustClaim(tv, 2))
      [] key = 2 -> Ok(TrustClaim(tv, 3))
      [] key = 3 -> Ok(TrustClaim(tv, 4))
      [] key = 4 -> Ok(TrustClaim(tv, 5))
      [] key = 5 -> Ok(TrustClaim(tv, 6))
      [] key = 6 -> Ok(TrustClaim(tv, 7))
      [] key = 7 -> Ok(TrustClaim(tv, 8))
      [] OTHER -> Err("invalid key")

\* TrustVector::by_name
by_name(tv, name) ==
    CASE name = "instance-identity" -> Ok(TrustClaim(tv, 1))
      [] name = "configuration" -> Ok(TrustClaim(tv, 2))
      [] name = "executables" -> Ok(TrustClaim(tv, 3))
      [] name = "file-system" -> Ok(TrustClaim(tv, 4))
      [] name = "hardware" -> Ok(TrustClaim(tv, 5))
      [] name = "runtime-opaque" -> Ok(TrustClaim(tv, 6))
      [] name = "storage-opaque" -> Ok(TrustClaim(tv, 7))
      [] name = "sourced-data" -> Ok(TrustClaim(tv, 8))
      [] OTHER -> Err("invalid name")

\* TrustVectorIterator::next, from index to the end: the claims yielded
\* until by_key fails.
RECURSIVE into_iter(_, _)
Yield(r, rest) == IF r.ok THEN <<r.value>> \o rest ELSE <<>>

into_iter(tv, index) ==
    IF by_key(tv, index).ok THEN Yield(by_key(tv, index), into_iter(tv, index + 1))
    ELSE <<>>

\* impl Serialize for TrustVector: one entry for each claim the iterator
\* yields that is set, under its tag or its key.
RECURSIVE ClaimsSerialize(_, _)
ClaimsSerialize(claims, hr) ==
    IF claims = <<>> THEN <<>>
    ELSE (IF is_set(claims[1].value)
          THEN <<Field(hr, claims[1].tag, claims[1].key), WInt(ClaimValue(claims[1].value))>>
          ELSE <<>>) \o ClaimsSerialize(Tail(claims), hr)

TrustVectorSerialize(tv, hr) == WMap(ClaimsSerialize(into_iter(tv, 0), hr))

\* TrustVector::any_set: some claim the iterator yields is set
any_set(tv) == \E i \in DOMAIN into_iter(tv, 0) : is_set(into_iter(tv, 0)[i].value)

\* ------------------------------------------------------------------------
\* RawValue (src/raw.rs).  The maps of the model have text keys.
\* ------------------------------------------------------------------------
RawInteger(n) == Val("Integer", "", n, <<>>, <<>>)
RawBytes(b) == Val("Bytes", "", 0, b, <<>>)
RawFloat(n) == Val("Float", "", n, <<>>, <<>>)
RawText(s) == Val("Text", s, 0, <<>>, <<>>)
RawBool(x) == Val("Bool", "", x, <<>>, <<>>)
RawArray(items) == Val("Array", "", 0, <<>>, items)
RawMap(items) == Val("Map", "", 0, <<>>, items)
RawTagged(t, v) == Val("Tagged", "", t, <<>>, <<v>>)

RECURSIVE RawSerialize(_, _)
RECURSIVE RawSerializeSeq(_, _)
RawSerializeSeq(vs, hr) ==
    IF vs = <<>> THEN <<>>
    ELSE <<RawSerialize(vs[1], hr)>> \o RawSerializeSeq(Tail(vs), hr)

RawSerialize(v, hr) ==
    CASE v.kind = "Integer" -> WInt(v.n)
      [] v.kind = "Bytes" -> BytesSerialize(v.b, hr)
      [] v.kind = "Float" -> WFloat(v.n)
      [] v.kind = "Text" -> WText(v.s)
      [] v.kind = "Bool" -> WBool(v.n)
      [] v.kind = "Array" -> WArray(RawSerializeSeq(v.items, hr))
      [] v.kind = "Map" -> WMapN(RawSerializeSeq(v.items, hr))
      [] v.kind = "Tagged" ->
            IF hr THEN RawSerialize(v.items[1], hr)
            ELSE WTag(v.n, RawSerialize(v.items[1], hr))

\* deserialize_any with RawValueVisitor: no visit_unit, so null is an error
RECURSIVE RawValueVisitor(_)
RECURSIVE RawVisitItems(_)
\* The element h pushed on the elements t, or the first error.
RawPush(h, t) ==
    IF ~h.ok THEN h
    ELSE IF ~t.ok THEN t
    ELSE Ok(RawArray(<<h.value>> \o t.value.items))

RawVisitItems(ws) ==
    IF ws = <<>> THEN Ok(Unset)
    ELSE RawPush(RawValueVisitor(ws[1]), RawVisitItems(Tail(ws)))

\* RawValue::Array(..) / RawValue::Map(..) of the visited elements r,
\* RawValue::Tagged(t, ..) of the visited content r.
RawCollected(variant, r) ==
    IF r.ok THEN Ok(Val(variant, "", 0, <<>>, r.value.items)) ELSE r

RawTaggedWith(t, r) == IF r.ok THEN Ok(RawTagged(t, r.value)) ELSE r

RawValueVisitor(w) ==
    CASE w.kind = "int" -> Ok(RawInteger(w.n))
      [] w.kind = "float" -> Ok(RawFloat(w.n))
      [] w.kind = "bool" -> Ok(RawBool(w.n))
      [] w.kind = "text" -> Ok(RawText(w.s))
      [] w.kind = "bytes" -> Ok(RawBytes(w.b))
      [] w.kind = "array" -> RawCollected("Array", RawVisitItems(w.items))
      [] w.kind = "map" -> RawCollected("Map", RawVisitItems(w.items))
      [] w.kind = "tag" -> RawTaggedWith(w.n, RawValueVisitor(w.items[1]))
      [] OTHER -> Err("invalid type")

\* ------------------------------------------------------------------------
\* BTreeMap<String, T>: the sequence of its <<name, value>> entries in the
\* order of the names.
\* ------------------------------------------------------------------------
MapNames == <<"a", "test">>

Rank(s) == CHOOSE i \in DOMAIN MapNames : MapNames[i] = s

RECURSIVE insert(_, _, _)
insert(m, k, v) ==
    IF m = <<>> THEN << <<k, v>> >>
    ELSE IF m[1][1] = k THEN << <<k, v>> >> \o Tail(m)
    ELSE IF Rank(k) < Rank(m[1][1]) THEN << <<k, v>> >> \o m
    ELSE <<m[1]>> \o insert(Tail(m), k, v)

\* BTreeMap<String, RawValue>
RECURSIVE RawMapEntries(_, _)
RawMapEntries(m, hr) ==
    IF m = <<>> THEN <<>>
    ELSE <<WText(m[1][1]), RawSerialize(m[1][2], hr)>> \o RawMapEntries(Tail(m), hr)

RawMapSerialize(m, hr) == WMapN(RawMapEntries(m, hr))

RECURSIVE RawMapVisit(_, _)
RECURSIVE RawMapNext(_, _, _, _)
RawMapVisit(items, m) ==
    IF items = <<>> THEN Ok(m)
    ELSE IF items[1].kind # "text" THEN Err("invalid type")
    ELSE RawMapNext(RawValueVisitor(items[2]), items[1].s, Tail(Tail(items)), m)

\* The entry (k, r?) inserted, and the rest of the map visited.
RawMapNext(r, k, items, m) ==
    IF ~r.ok THEN r ELSE RawMapVisit(items, insert(m, k, r.value))

RawMapDeserialize(w) ==
    IF w.kind = "map" THEN RawMapVisit(w.items, <<>>) ELSE Err("invalid type")

\* ------------------------------------------------------------------------
\* KeyAttestation (src/key.rs)
\* ------------------------------------------------------------------------
NewKeyAttestation == [pub_key |-> <<>>]

KeyAttestationSerialize(ka, hr) ==
    WMap(<<Field(hr, "akpub", 0), BytesSerialize(ka.pub_key, hr)>>)

RECURSIVE KeyAttestationVisit(_, _, _)
RECURSIVE KeyAttestationNext(_, _, _, _)
KeyAttestationVisit(items, ka, hr) ==
    IF items = <<>> THEN Ok(ka)
    ELSE IF items[1].kind # (IF hr THEN "text" ELSE "int") THEN Err("invalid type")
    ELSE IF items[1] = Field(hr, "akpub", 0)
    THEN KeyAttestationNext(BytesDeserialize(items[2], hr), Tail(Tail(items)), ka, hr)
    ELSE Err(IF hr THEN "invalid name" ELSE "invalid key")

\* pub_key = r?.into(), and the rest of the map visited.
KeyAttestationNext(r, items, ka, hr) ==
    IF ~r.ok THEN r
    ELSE KeyAttestationVisit(items, [ka EXCEPT !.pub_key = r.value.b], hr)

KeyAttestationDeserialize(w, hr) ==
    IF w.kind = "map" THEN KeyAttestationVisit(w.items, NewKeyAttestation, hr)
    ELSE Err("invalid type")

\* ------------------------------------------------------------------------
\* VerifierID (src/id.rs)
\* ------------------------------------------------------------------------
NewVerifierID == [build |-> "", developer |-> ""]

VerifierIDValidate(vid) ==
    IF vid.build = "" THEN Err("empty build")
    ELSE IF vid.developer = "" THEN Err("empty build")
    ELSE Ok(Unset)

VerifierIDSerialize(vid, hr) ==
    WMapN(<<Field(hr, "developer", 0), WText(vid.developer),
            Field(hr, "build", 1), WText(vid.build)>>)

RECURSIVE VerifierIDVisit(_, _, _)
VerifierIDVisit(items, vid, hr) ==
    IF items = <<>> THEN Ok(vid)
    ELSE IF items[1].kind # (IF hr THEN "text" ELSE "int") THEN Err("invalid type")
    ELSE IF items[1] \notin {Field(hr, "developer", 0), Field(hr, "build", 1)}
    THEN Err(IF hr THEN "invalid name" ELSE "invalid key")
    ELSE IF items[2].kind # "text" THEN Err("invalid type")
    ELSE IF items[1] = Field(hr, "developer", 0)
    THEN VerifierIDVisit(Tail(Tail(items)), [vid EXCEPT !.developer = items[2].s], hr)
    ELSE VerifierIDVisit(Tail(Tail(items)), [vid EXCEPT !.build = items[2].s], hr)

VerifierIDDeserialize(w, hr) ==
    IF w.kind = "map" THEN VerifierIDVisit(w.items, NewVerifierID, hr)
    ELSE Err("invalid type")

\* ------------------------------------------------------------------------
\* Nonce (src/nonce.rs): Vec<OneNonce>
\* ------------------------------------------------------------------------
OneNonceString(s) == Val("String", s, 0, <<>>, <<>>)
OneNonceBytes(b) == Val("Bytes", "", 0, b, <<>>)

\* A conversion that takes byte strings of any length.
OneNonceFromBytes_Unchecked(b) == Ok(OneNonceBytes(b))

OneNonceFromBytes(b) ==
    IF Len(b) >= 8 /\ Len(b) <= 64 THEN Ok(OneNonceBytes(b))
    ELSE Err("nonce must be between 8 and 64 bytes")

\* Bounds that leave out the ends of the range.
OneNonceFromStr_Exclusive(s) ==
    IF Len(s) > 8 /\ Len(s) < 88 THEN Ok(OneNonceString(s))
    ELSE Err("nonce must be between 8 and 88 characters")

OneNonceFromStr(s) ==
    IF Len(s) >= 8 /\ Len(s) <= 88 THEN Ok(OneNonceString(s))
    ELSE Err("nonce must be between 8 and 88 characters")

\* A serializer that writes either variant in either mode.
OneNonceSerialize_Coerced(on, hr) ==
    IF on.kind = "Bytes" THEN Ok(BytesSerialize(on.b, hr)) ELSE Ok(WText(on.s))

OneNonceSerialize(on, hr) ==
    IF on.kind = "Bytes"
    THEN IF ~hr THEN Ok(BytesSerialize(on.b, hr)) ELSE Err("cannot write byte nonce to JSON")
    ELSE IF hr THEN Ok(WText(on.s)) ELSE Err("cannot write string nonce to CBOR")

OneNonceDeserialize(w) ==
    CASE w.kind = "text" -> OneNonceFromStr(w.s)
      [] w.kind = "bytes" -> OneNonceFromBytes(w.b)
      [] OTHER -> Err("invalid type")

\* seq.serialize_element(h)?, before the elements t.
NonceElement(h, t) ==
    IF ~h.ok THEN h
    ELSE IF ~t.ok THEN t
    ELSE Ok(WArray(<<h.value>> \o t.value.items))

RECURSIVE NonceSerializeSeq(_, _)
NonceSerializeSeq(n, hr) ==
    IF n = <<>> THEN Ok(WArray(<<>>))
    ELSE NonceElement(OneNonceSerialize(n[1], hr), NonceSerializeSeq(Tail(n), hr))

NonceSerialize(n, hr) ==
    CASE Len(n) = 0 -> Ok(WNull)
      [] Len(n) = 1 -> OneNonceSerialize(n[1], hr)
      [] OTHER -> NonceSerializeSeq(n, hr)

\* nonce.0.push(h), before the elements t.
NoncePush(h, t) ==
    IF ~h.ok THEN h
    ELSE IF ~t.ok THEN t
    ELSE Ok(<<h.value>> \o t.value)

RECURSIVE NonceVisitSeq(_)
NonceVisitSeq(ws) ==
    IF ws = <<>> THEN Ok(<<>>)
    ELSE NoncePush(OneNonceDeserialize(ws[1]), NonceVisitSeq(Tail(ws)))

\* Nonce(vec![r?])
NonceOfOne(r) == IF r.ok THEN Ok(<<r.value>>) ELSE r

\* format!("item {i}: {msg}")
Decimal == <<"0", "1", "2", "3", "4", "5", "6", "7", "8", "9">>

ItemError(i, msg) == "item " \o Decimal[i + 1] \o ": " \o msg

\* res.0.push(OneNonce::try_from(v).map_err(..)?), item i of the slice,
\* and the rest of the loop.
NonceItem(r, i, rest) ==
    IF ~r.ok THEN Err(ItemError(i, r.err))
    ELSE IF ~rest.ok THEN rest
    ELSE Ok(<<r.value>> \o rest.value)

\* TryFrom<&[&str]> for Nonce, from item i of the slice on
RECURSIVE NonceFromStrSlice(_, _)
NonceFromStrSlice(vals, i) ==
    IF i >= Len(vals) THEN Ok(<<>>)
    ELSE NonceItem(OneNonceFromStr(vals[i + 1]), i, NonceFromStrSlice(vals, i + 1))

\* TryFrom<&[Vec<u8>]> for Nonce, from item i of the slice on
RECURSIVE NonceFromBytesSlice(_, _)
NonceFromBytesSlice(vals, i) ==
    IF i >= Len(vals) THEN Ok(<<>>)
    ELSE NonceItem(OneNonceFromBytes(vals[i + 1]), i, NonceFromBytesSlice(vals, i + 1))

\* deserialize_any with NonceVisitor
NonceDeserialize(w) ==
    CASE w.kind = "text" -> NonceOfOne(OneNonceFromStr(w.s))
      [] w.kind = "bytes" -> NonceOfOne(OneNonceFromBytes(w.b))
      [] w.kind = "array" -> NonceVisitSeq(w.items)
      [] OTHER -> Err("invalid type")

\* ------------------------------------------------------------------------
\* MapAccess, as the visit_map loops of Ear and Appraisal use it.  A map on
\* the wire is the sequence key, value, key, value, ...  next_key reads one
\* item and next_value the next one.  A loop that does not call next_value
\* after next_key leaves the value where it is:
\*   - the JSON reader then fails at the next next_key, which finds a colon
\*     where it wants a comma or the end of the object;
\*   - the CBOR reader reads the value as the next key.
\* left is the number of keys a definite-length map still holds, and is
\* negative for a map that runs to its end.
\* ------------------------------------------------------------------------
Keys_left(w) == IF w.n > 0 THEN w.n ELSE -1

Dec(left) == IF left < 0 THEN left ELSE left - 1

AtEnd(items, left) == left = 0 \/ (left < 0 /\ items = <<>>)

\* ------------------------------------------------------------------------
\* Appraisal (src/appraisal.rs)
\* ------------------------------------------------------------------------
NewAppraisal ==
    [status |-> "none", trust_vector |-> NewTrustVector, policy_id |-> None,
     annotated_evidence |-> <<>>, policy_claims |-> <<>>, key_attestation |-> None]

\* #[derive(PartialEq)] on Appraisal, with the PartialEq of TrustClaim
AppraisalEq(a, b) ==
    /\ a.status = b.status
    /\ TrustVectorEq(a.trust_vector, b.trust_vector)
    /\ a.policy_id = b.policy_id
    /\ a.annotated_evidence = b.annotated_evidence
    /\ a.policy_claims = b.policy_claims
    /\ a.key_attestation = b.key_attestation

\* #[derive(PartialOrd)] on TrustTier: the place of the variant
TierIndex(t) == CHOOSE i \in DOMAIN TrustTier : TrustTier[i] = t

\* A loop body that takes the tier of each claim as it comes.
Raised_Always(status, claim_tier) == claim_tier

\* if self.status < claim_tier { self.status = claim_tier }
Raised(status, claim_tier) ==
    IF TierIndex(status) < TierIndex(claim_tier) THEN claim_tier ELSE status

\* The loop of update_status_from_trust_vector over the claims
RECURSIVE StatusOver(_, _)
StatusOver(status, claims) ==
    IF claims = <<>> THEN status
    ELSE StatusOver(Raised(status, tier(claims[1].value)), Tail(claims))

\* Appraisal::update_status_from_trust_vector
update_status_from_trust_vector(a) ==
    [a EXCEPT !.status = StatusOver(a.status, into_iter(a.trust_vector, 0))]

\* Ear::update_status_from_trust_vector
EarUpdateStatus(e) ==
    [e EXCEPT !.submods =
        [j \in DOMAIN e.submods |->
            IF e.submods[j][2].status = "none"
            THEN <<e.submods[j][1], update_status_from_trust_vector(e.submods[j][2])>>
            ELSE e.submods[j]]]

\* impl Serialize for Appraisal: the entries it writes, in order
AppraisalEntries(a, hr) ==
    <<Field(hr, "ear.status", 1000), TrustTierSerialize(a.status, hr)>>
    \o (IF any_set(a.trust_vector)
        THEN <<Field(hr, "ear.trustworthiness-vector", 1001),
               TrustVectorSerialize(a.trust_vector, hr)>>
        ELSE <<>>)
    \o (IF a.policy_id # None
        THEN <<Field(hr, "ear.appraisal-policy-id", 1003), WText(a.policy_id[1])>>
        ELSE <<>>)
    \o (IF a.annotated_evidence # <<>>
        THEN <<Field(hr, "ear.veraison.annotated-evidence", -70000),
               RawMapSerialize(a.annotated_evidence, hr)>>
        ELSE <<>>)
    \o (IF a.policy_claims # <<>>
        THEN <<Field(hr, "ear.veraison.policy-claims", -70001),
               RawMapSerialize(a.policy_claims, hr)>>
        ELSE <<>>)

AppraisalSerialize(a, hr) == WMap(AppraisalEntries(a, hr))

\* The key of a known field of Appraisal, 0 for any other name or key.
AppraisalKey(item, hr) ==
    IF hr
    THEN CASE item.s = "ear.status" -> 1000
           [] item.s = "ear.trustworthiness-vector" -> 1001
           [] item.s = "ear.appraisal-policy-id" -> 1003
           [] item.s = "ear.veraison.annotated-evidence" -> -70000
           [] item.s = "ear.veraison.policy-claims" -> -70001
           [] item.s = "ear.veraison.key-attestation" -> -70002
           [] OTHER -> 0
    ELSE IF item.n \in {1000, 1001, 1003, -70000, -70001, -70002} THEN item.n ELSE 0

\* One arm of the match in AppraisalVisitor::visit_map: the appraisal with
\* the field of this key read from w.
AppraisalField(a, k, w, hr) ==
    CASE k = 1000 -> Assign(a, "status", TrustTierDeserialize(w))
      [] k = 1001 -> Assign(a, "trust_vector", TrustVectorDeserialize(w, hr))
      [] k = 1003 ->
            IF w.kind = "text" THEN Ok([a EXCEPT !.policy_id = Some(w.s)])
            ELSE Err("invalid type")
      [] k = -70000 -> Assign(a, "annotated_evidence", RawMapDeserialize(w))
      [] k = -70001 -> Assign(a, "policy_claims", RawMapDeserialize(w))
      [] k = -70002 -> AssignSome(a, "key_attestation", KeyAttestationDeserialize(w, hr))

\* AppraisalVisitor::visit_map
RECURSIVE AppraisalVisit(_, _, _, _)
RECURSIVE AppraisalNext(_, _, _, _)
AppraisalVisit(items, left, a, hr) ==
    IF AtEnd(items, left) THEN Ok(a)
    ELSE IF items = <<>> THEN Err("unexpected end of input")
    ELSE IF items[1].kind # (IF hr THEN "text" ELSE "int") THEN Err("invalid type")
    ELSE IF AppraisalKey(items[1], hr) = 0
    THEN IF hr THEN Err("expected comma or end of object")
         ELSE AppraisalVisit(Tail(items), Dec(left), a, hr)
    ELSE IF Len(items) < 2 THEN Err("unexpected end of input")
    ELSE AppraisalNext(AppraisalField(a, AppraisalKey(items[1], hr), items[2], hr),
                       Tail(Tail(items)), Dec(left), hr)

\* The arm's ? and the next turn of the loop, on the appraisal r? .
AppraisalNext(r, items, left, hr) ==
    IF ~r.ok THEN r ELSE AppraisalVisit(items, left, r.value, hr)

AppraisalDeserialize(w, hr) ==
    IF w.kind = "map" THEN AppraisalVisit(w.items, Keys_left(w), NewAppraisal, hr)
    ELSE Err("invalid type")

\* BTreeMap<String, Appraisal>
RECURSIVE SubmodEntries(_, _)
SubmodEntries(m, hr) ==
    IF m = <<>> THEN <<>>
    ELSE <<WText(m[1][1]), AppraisalSerialize(m[1][2], hr)>> \o SubmodEntries(Tail(m), hr)

SubmodsSerialize(m, hr) == WMapN(SubmodEntries(m, hr))

RECURSIVE SubmodsVisit(_, _, _)
RECURSIVE SubmodsNext(_, _, _, _, _)
SubmodsVisit(items, m, hr) ==
    IF items = <<>> THEN Ok(m)
    ELSE IF items[1].kind # "text" THEN Err("invalid type")
    ELSE SubmodsNext(AppraisalDeserialize(items[2], hr), items[1].s, Tail(Tail(items)), m, hr)

\* The entry (k, r?) inserted, and the rest of the map visited.
SubmodsNext(r, k, items, m, hr) ==
    IF ~r.ok THEN r ELSE SubmodsVisit(items, insert(m, k, r.value), hr)

SubmodsDeserialize(w, hr) ==
    IF w.kind = "map" THEN SubmodsVisit(w.items, <<>>, hr) ELSE Err("invalid type")

SubmodsEq(m, n) ==
    /\ Len(m) = Len(n)
    /\ \A i \in DOMAIN m : m[i][1] = n[i][1] /\ AppraisalEq(m[i][2], n[i][2])

\* ------------------------------------------------------------------------
\* Ear (src/ear.rs)
\* ------------------------------------------------------------------------
NewEar ==
    [profile |-> "", iat |-> 0, vid |-> NewVerifierID, submods |-> <<>>,
     nonce |-> None, raw_evidence |-> None]

\* #[derive(PartialEq)] on Ear
EarEq(a, b) ==
    /\ a.profile = b.profile
    /\ a.iat = b.iat
    /\ a.vid = b.vid
    /\ SubmodsEq(a.submods, b.submods)
    /\ a.nonce = b.nonce
    /\ a.raw_evidence = b.raw_evidence

\* A validate that does not look at the submods.
validate_NoSubmods(ear) ==
    IF ear.profile = "" THEN Err("empty profile")
    ELSE IF ear.iat = 0 THEN Err("iat unset")
    ELSE IF ~VerifierIDValidate(ear.vid).ok
    THEN Err("verifier-id: empty build")
    ELSE Ok(Unset)

validate(ear) ==
    IF ear.profile = "" THEN Err("empty profile")
    ELSE IF ear.submods = <<>> THEN Err("empty submods")
    ELSE IF ear.iat = 0 THEN Err("iat unset")
    ELSE IF ~VerifierIDValidate(ear.vid).ok
    THEN Err("verifier-id: empty build")
    ELSE Ok(Unset)

\* impl Serialize for Ear, after validate: the entries it writes, in
\* order, or the error of the first entry that cannot be written.
EarEntriesWith(ear, hr, n) ==
    IF ~n.ok THEN n
    ELSE Ok(<<Field(hr, "eat_profile", 265), WText(ear.profile),
              Field(hr, "iat", 6), WInt(ear.iat),
              Field(hr, "ear.verifier-id", 1004), VerifierIDSerialize(ear.vid, hr),
              Field(hr, "submods", 266), SubmodsSerialize(ear.submods, hr)>>
            \o (IF ear.nonce # None THEN <<Field(hr, "eat_nonce", 10), n.value>> ELSE <<>>)
            \o (IF ear.raw_evidence # None
                THEN <<Field(hr, "ear.raw-evidence", 1002),
                       BytesSerialize(ear.raw_evidence[1], hr)>>
                ELSE <<>>))

\* The nonce as the serializer writes it, when there is one.
EarNonce(ear, hr) ==
    IF ear.nonce = None THEN Ok(WNull) ELSE NonceSerialize(ear.nonce[1], hr)

EarEntries(ear, hr) == EarEntriesWith(ear, hr, EarNonce(ear, hr))

\* map.end() on the entries r
EarMapEnd(r) == IF r.ok THEN Ok(WMap(r.value)) ELSE r

EarSerialize(ear, hr) == Checked(validate(ear), EarMapEnd(EarEntries(ear, hr)))

\* The key of a known field of Ear, 0 for any other name or key.
EarKey(item, hr) ==
    IF hr
    THEN CASE item.s = "eat_profile" -> 265
           [] item.s = "iat" -> 6
           [] item.s = "ear.verifier-id" -> 1004
           [] item.s = "submods" -> 266
           [] item.s = "eat_nonce" -> 10
           [] item.s = "ear.raw-evidence" -> 1002
           [] OTHER -> 0
    ELSE IF item.n \in {265, 6, 1004, 266, 10, 1002} THEN item.n ELSE 0

\* rec.f = Some(r?.into()) for the Bytes r
AssignBytes(rec, f, r) == IF r.ok THEN Ok([rec EXCEPT ![f] = Some(r.value.b)]) ELSE r

\* One arm of the match in EarVisitor::visit_map
EarField(ear, k, w, hr) ==
    CASE k = 265 ->
            IF w.kind = "text" THEN Ok([ear EXCEPT !.profile = w.s]) ELSE Err("invalid type")
      [] k = 6 ->
            IF w.kind = "int" THEN Ok([ear EXCEPT !.iat = w.n]) ELSE Err("invalid type")
      [] k = 1004 -> Assign(ear, "vid", VerifierIDDeserialize(w, hr))
      [] k = 266 -> Assign(ear, "submods", SubmodsDeserialize(w, hr))
      [] k = 10 -> AssignSome(ear, "nonce", NonceDeserialize(w))
      [] k = 1002 -> AssignBytes(ear, "raw_evidence", BytesDeserialize(w, hr))

\* The loop of EarVisitor::visit_map
RECURSIVE EarVisit(_, _, _, _)
RECURSIVE EarNext(_, _, _, _)
EarVisit(items, left, ear, hr) ==
    IF AtEnd(items, left) THEN Ok(ear)
    ELSE IF items = <<>> THEN Err("unexpected end of input")
    ELSE IF items[1].kind # (IF hr THEN "text" ELSE "int") THEN Err("invalid type")
    ELSE IF EarKey(items[1], hr) = 0
    THEN IF hr THEN Err("expected comma or end of object")
         ELSE EarVisit(Tail(items), Dec(left), ear, hr)
    ELSE IF Len(items) < 2 THEN Err("unexpected end of input")
    ELSE EarNext(EarField(ear, EarKey(items[1], hr), items[2], hr),
                 Tail(Tail(items)), Dec(left), hr)

\* The arm's ? and the next turn of the loop, on the Ear r? .
EarNext(r, items, left, hr) ==
    IF ~r.ok THEN r ELSE EarVisit(items, left, r.value, hr)

\* EarVisitor::visit_map: the loop, then validate
EarValidated(r) == IF ~r.ok THEN r ELSE Checked(validate(r.value), r)

EarDeserialize(w, hr) ==
    IF w.kind # "map" THEN Err("invalid type")
    ELSE EarValidated(EarVisit(w.items, Keys_left(w), NewEar, hr))

\* ------------------------------------------------------------------------
\* The registry as a state machine.
\*   ext    the Extensions value
\*   is_human_readable  the mode of the deserializer that feeds it: one
\*          deserialization meets names only (JSON) or keys only (CBOR)
\*   last   the last call: its arguments and its result
\*   out    the entries written by the last serialize_to_map_by_*
\*   ops    the number of calls made
\* ------------------------------------------------------------------------
VARIABLES ext, is_human_readable, last, out, ops, ear, wire, back

\* The trust vector under test and the answer to the last call on it.
VARIABLES tv, seen

ext_vars == <<ext, is_human_readable, last, out, ops>>

codec_vars == <<ear, wire, back>>

\* The profile registry and the threads that call it:
\*   PROFILE_REGISTER  the BTreeMap behind the Mutex: id -> the address of
\*                the stored Profile
\*   heap         the Profile objects, by address; a clone is a new object
\*   lock         the thread that holds the Mutex, 0 when it is free
\*   th           each thread: where it is in its call (pc), the Profile it
\*                built (mine), the copy get_profile gave it (got), the id
\*                it asked for and the result of its last call (res)
\*   hist         history: per id, the Profile of the first insert, the
\*                number of register_profile calls that succeeded (wins)
\*                and that failed (fails)
\*   calls        the number of calls begun
VARIABLES PROFILE_REGISTER, heap, lock, th, hist, calls

\* A Profile under construction and the Ear it is applied to:
\*   profile    the Profile
\*   target     the Ear: its profile id, its extensions and the extensions
\*              of each of its submods
\*   populated  the result of the last populate_ear_extensions
\*   steps      the number of calls made
VARIABLES profile, target, populated, steps

\* A Nonce, how it was made and how it was written:
\*   nonce  the Nonce, None until one is made
\*   made   the call that made it, its input and its result
\*   sent   the last encoding of the Nonce, or of an Ear that carries it
VARIABLES nonce, made, sent

\* A signed token and its verification:
\*   token     the result of the last signing, and what became of the token
\*             on its way
\*   verified  the result of the last verification
VARIABLES token, verified

trust_vars == <<tv, seen>>

sign_vars == <<token, verified>>

\* A second Extensions, and the answers of the last comparison of ext with
\* it, each way round.
VARIABLES other, equal

eq_vars == <<other, equal>>

nonce_vars == <<nonce, made, sent>>

pop_vars == <<profile, target, populated, steps>>

prof_vars == <<PROFILE_REGISTER, heap, lock, th, hist, calls>>

\* The variables of the state machines of single types.
unit_vars == <<trust_vars, prof_vars, pop_vars, nonce_vars, sign_vars, eq_vars>>

not_trust_vars == <<ext_vars, codec_vars, prof_vars, pop_vars, nonce_vars, sign_vars, eq_vars>>

not_prof_vars == <<ext_vars, codec_vars, trust_vars, pop_vars, nonce_vars, sign_vars, eq_vars>>

not_pop_vars == <<ext_vars, codec_vars, trust_vars, prof_vars, nonce_vars, sign_vars, eq_vars>>

not_nonce_vars == <<ext_vars, codec_vars, trust_vars, prof_vars, pop_vars, sign_vars, eq_vars>>

not_sign_vars ==
    <<ext_vars, wire, back, trust_vars, prof_vars, pop_vars, nonce_vars, eq_vars>>

Answer(op, name, key, hr, r) ==
    [op |-> op, name |-> name, key |-> key, hr |-> hr,
     ok |-> r.ok, err |-> r.err, value |-> r.value]

NoAnswer == Answer("new", "", 0, FALSE, Ok(Unset))

TrustAtRest ==
    /\ tv = NewTrustVector
    /\ seen = NoAnswer

ProfAtRest ==
    /\ PROFILE_REGISTER = << >>
    /\ heap = << >>
    /\ lock = 0
    /\ th = << >>
    /\ hist = << >>
    /\ calls = 0

PopAtRest ==
    /\ profile = NewProfile("")
    /\ target = [profile |-> "", extensions |-> NewExtensions, submods |-> << >>]
    /\ populated = Ok(Unset)
    /\ steps = 0

Made(op, input, r) == [op |-> op, input |-> input, ok |-> r.ok, err |-> r.err]

NotMade == Made("none", << >>, Ok(Unset))

Sent(op, hr, r) == [op |-> op, hr |-> hr, ok |-> r.ok, err |-> r.err, value |-> r.value]

NotSent == Sent("none", FALSE, Ok(Unset))

NonceAtRest ==
    /\ nonce = None
    /\ made = NotMade
    /\ sent = NotSent

\* The outcome of a call that signs or verifies: a value, an Error of one
\* of the variants of src/error.rs, or a panic.
Pass(v) == [ok |-> TRUE, variant |-> "Ok", err |-> "", value |-> v]

Fail(variant, msg) == [ok |-> FALSE, variant |-> variant, err |-> msg, value |-> Unset]

Panicked == Fail("panic", "called Result::unwrap() on an Err value")

Signing(op, alg, key, r) ==
    [op |-> op, alg |-> alg, key |-> key,
     ok |-> r.ok, variant |-> r.variant, err |-> r.err, value |-> r.value]

NoKey == [family |-> "", pair |-> 0, good |-> FALSE, alg |-> ""]

NotSigned == Signing("none", "", NoKey, Pass(Unset))

SignAtRest ==
    /\ token = NotSigned
    /\ verified = NotSigned

NotCompared == [done |-> FALSE, ab |-> FALSE, ba |-> FALSE]

Compared(ab, ba) == [done |-> TRUE, ab |-> ab, ba |-> ba]

EqAtRest ==
    /\ other = NewExtensions
    /\ equal = NotCompared

UnitAtRest ==
    TrustAtRest /\ ProfAtRest /\ PopAtRest /\ NonceAtRest /\ SignAtRest /\ EqAtRest

\* The kinds a caller registers, the values a caller sets, and the values a
\* decoder meets on the wire, in the state machine.
RegKinds == {"Unset", "String", "Bytes", "Integer"}

ExtValues == { Unset, StringV("bar"), BytesV(DeadBeef), IntegerV(42) }

JsonValues == { WNull, WText("bar"), WText("3q2-7w"), WInt(42) }

CborValues == { WNull, WText("bar"), WBytes(DeadBeef), WInt(42) }

\* Every shape of value a JSON or a CBOR document holds, for the claims
\* about one call on one value.
AllJsonValues ==
    JsonValues \cup
    { WBool(1), WFloat(42), WArray(<<WInt(1), WInt(2)>>),
      WArray(<<WArray(<<WInt(1), WInt(2)>>)>>), WMap(<<WText("a"), WInt(1)>>) }

AllCborValues ==
    CborValues \cup
    { WBool(1), WFloat(42), WArray(<<WInt(1), WInt(2)>>),
      WArray(<<WArray(<<WInt(1), WInt(2)>>)>>), WMap(<<WInt(1), WText("a")>>) }

WireValues(hr) == IF hr THEN AllJsonValues ELSE AllCborValues

Call(op, name, key, k, v, r) ==
    [op |-> op, name |-> name, key |-> key, kind |-> k, value |-> v,
     ok |-> r.ok, err |-> r.err]

NoCall == Call("new", "", 0, "Unset", Unset, Ok(Unset))

ExtInit ==
    /\ ext = NewExtensions
    /\ is_human_readable \in BOOLEAN
    /\ last = NoCall
    /\ out = << >>
    /\ ops = 0

Register(name, key, k) ==
    /\ ops < MaxOps
    /\ ext' = register(ext, name, key, k).ext
    /\ last' = Call("register", name, key, k, Unset, register(ext, name, key, k).res)
    /\ ops' = ops + 1
    /\ UNCHANGED <<is_human_readable, out, codec_vars, unit_vars>>

SetByKey(key, value) ==
    /\ ops < MaxOps
    /\ ext' = set_by_key(ext, key, value).ext
    /\ last' = Call("set_by_key", "", key, "Unset", value, set_by_key(ext, key, value).res)
    /\ ops' = ops + 1
    /\ UNCHANGED <<is_human_readable, out, codec_vars, unit_vars>>

SetByName(name, value) ==
    /\ ops < MaxOps
    /\ ext' = set_by_name(ext, name, value).ext
    /\ last' = Call("set_by_name", name, 0, "Unset", value, set_by_name(ext, name, value).res)
    /\ ops' = ops + 1
    /\ UNCHANGED <<is_human_readable, out, codec_vars, unit_vars>>

VisitByName(name, w) ==
    /\ ops < MaxOps
    /\ is_human_readable
    /\ ext' = visit_map_entry_by_name(ext, name, w, TRUE).ext
    /\ last' = Call("visit_by_name", name, 0, "Unset", w,
                    visit_map_entry_by_name(ext, name, w, TRUE).res)
    /\ ops' = ops + 1
    /\ UNCHANGED <<is_human_readable, out, codec_vars, unit_vars>>

VisitByKey(key, w) ==
    /\ ops < MaxOps
    /\ ~is_human_readable
    /\ ext' = visit_map_entry_by_key(ext, key, w, FALSE).ext
    /\ last' = Call("visit_by_key", "", key, "Unset", w,
                    visit_map_entry_by_key(ext, key, w, FALSE).res)
    /\ ops' = ops + 1
    /\ UNCHANGED <<is_human_readable, out, codec_vars, unit_vars>>

SerializeByName ==
    /\ ops < MaxOps
    /\ out' = serialize_to_map_by_name(ext)
    /\ last' = Call("serialize_by_name", "", 0, "Unset", Unset, Ok(Unset))
    /\ ops' = ops + 1
    /\ UNCHANGED <<ext, is_human_readable, codec_vars, unit_vars>>

SerializeByKey ==
    /\ ops < MaxOps
    /\ out' = serialize_to_map_by_key(ext)
    /\ last' = Call("serialize_by_key", "", 0, "Unset", Unset, Ok(Unset))
    /\ ops' = ops + 1
    /\ UNCHANGED <<ext, is_human_readable, codec_vars, unit_vars>>

ExtNext ==
    \/ \E name \in Names, key \in Keys, k \in RegKinds : Register(name, key, k)
    \/ \E key \in Keys, v \in ExtValues : SetByKey(key, v)
    \/ \E name \in Names, v \in ExtValues : SetByName(name, v)
    \/ \E name \in Names, w \in JsonValues : VisitByName(name, w)
    \/ \E key \in Keys, w \in CborValues : VisitByKey(key, w)
    \/ SerializeByName
    \/ SerializeByKey

\* ------------------------------------------------------------------------
\* The codec as a state machine: one value, one document, one decode.
\*   ear    the Ear the sender holds
\*   wire   the document: written by this crate's serializer from ear (or
\*          from its first submod), or by a peer that holds the same value,
\*          does not validate, and may add a claim this crate does not know
\*   back   the result of deserializing the document
\* The mode of the serializer and the deserializer is is_human_readable.
\* ------------------------------------------------------------------------
TV(i, v) == [NewTrustVector EXCEPT ![i] = Some(v)]

Appraisals ==
    { NewAppraisal,
      [NewAppraisal EXCEPT !.status = "affirming", !.trust_vector = TV(2, 2)],
      [NewAppraisal EXCEPT !.trust_vector = TV(1, 0)],
      [NewAppraisal EXCEPT !.status = "contraindicated",
                           !.trust_vector = [TV(5, 96) EXCEPT ![8] = Some(-1)]],
      [NewAppraisal EXCEPT !.policy_id = Some("policy")],
      [NewAppraisal EXCEPT !.annotated_evidence = << <<"a", RawInteger(7)>> >>],
      [NewAppraisal EXCEPT !.policy_claims =
          << <<"a", RawText("x")>>, <<"test", RawArray(<<RawBool(1), RawInteger(7)>>)>> >>],
      [NewAppraisal EXCEPT !.annotated_evidence = << <<"a", RawBytes(DeadBeef)>> >>],
      [NewAppraisal EXCEPT !.policy_claims = << <<"a", RawTagged(1, RawInteger(7))>> >>],
      [NewAppraisal EXCEPT !.key_attestation = Some([pub_key |-> DeadBeef])] }

VerifierIDs ==
    { NewVerifierID,
      [build |-> "vsts 0.0.1", developer |-> ""],
      [build |-> "vsts 0.0.1", developer |-> "https://veraison-project.org"] }

Submods ==
    { <<>> } \cup { << <<"test", a>> >> : a \in Appraisals }
    \cup { << <<"a", NewAppraisal>>, <<"test", NewAppraisal>> >> }

Nonces ==
    { None, Some(<<OneNonceString("test value")>>), Some(<<OneNonceBytes(Bytes8)>>) }

Ears ==
    [profile : {"", "test"}, iat : {0, 1}, vid : VerifierIDs, submods : Submods,
     nonce : Nonces, raw_evidence : {None, Some(DeadBeef)}]

\* An entry that is no field of Ear or Appraisal, or no entry.
Extras(hr) ==
    { <<>> } \cup { <<Field(hr, "ext.unknown", -99999), v>> : v \in {WInt(42), WText("x")} }

Document(entity, by, extra, r) ==
    [entity |-> entity, by |-> by, extra |-> extra,
     ok |-> r.ok, err |-> r.err, value |-> r.value]

NoDocument == Document("none", "none", FALSE, Ok(WNull))

Decoded(entity, r) == [entity |-> entity, ok |-> r.ok, err |-> r.err, value |-> r.value]

NotDecoded == Decoded("none", Err(""))

WithExtra(items, extra, front) == IF front THEN extra \o items ELSE items \o extra

Counted(items, counted) == IF counted THEN WMapN(items) ELSE WMap(items)

CodecAtRest ==
    /\ wire = NoDocument
    /\ back = NotDecoded

CodecInit ==
    /\ ear \in Ears
    /\ is_human_readable \in BOOLEAN
    /\ CodecAtRest
    /\ UnitAtRest
    /\ ext = NewExtensions
    /\ last = NoCall
    /\ out = << >>
    /\ ops = 0

\* serde_json::to_string(&ear) / ciborium::into_writer(&ear, ..)
SerializeEar ==
    /\ wire = NoDocument
    /\ wire' = Document("ear", "serialize", FALSE, EarSerialize(ear, is_human_readable))
    /\ UNCHANGED <<ear, back, ext_vars, unit_vars>>

\* A document from a peer
ReceiveEar(extra, front, counted) ==
    /\ wire = NoDocument
    /\ EarEntries(ear, is_human_readable).ok
    /\ counted => ~is_human_readable
    /\ wire' = Document("ear", "peer", extra # <<>>,
                 Ok(Counted(WithExtra(EarEntries(ear, is_human_readable).value, extra, front),
                            counted)))
    /\ UNCHANGED <<ear, back, ext_vars, unit_vars>>

\* serde_json::from_str::<Ear>(..) / ciborium::from_reader::<Ear>(..)
DeserializeEar ==
    /\ wire.entity = "ear"
    /\ wire.ok
    /\ back = NotDecoded
    /\ back' = Decoded("ear", EarDeserialize(wire.value, is_human_readable))
    /\ UNCHANGED <<ear, wire, ext_vars, unit_vars>>

\* The same three steps for one Appraisal: the first submod of ear.
SerializeAppraisal ==
    /\ wire = NoDocument
    /\ ear.submods # <<>>
    /\ wire' = Document("appraisal", "serialize", FALSE,
                 Ok(AppraisalSerialize(ear.submods[1][2], is_human_readable)))
    /\ UNCHANGED <<ear, back, ext_vars, unit_vars>>

ReceiveAppraisal(extra, front, counted) ==
    /\ wire = NoDocument
    /\ ear.submods # <<>>
    /\ counted => ~is_human_readable
    /\ wire' = Document("appraisal", "peer", extra # <<>>,
                 Ok(Counted(WithExtra(AppraisalEntries(ear.submods[1][2], is_human_readable),
                                      extra, front),
                            counted)))
    /\ UNCHANGED <<ear, back, ext_vars, unit_vars>>

DeserializeAppraisal ==
    /\ wire.entity = "appraisal"
    /\ wire.ok
    /\ back = NotDecoded
    /\ back' = Decoded("appraisal", AppraisalDeserialize(wire.value, is_human_readable))
    /\ UNCHANGED <<ear, wire, ext_vars, unit_vars>>

CodecNext ==
    \/ SerializeEar
    \/ \E extra \in Extras(is_human_readable), front \in BOOLEAN, counted \in BOOLEAN :
          ReceiveEar(extra, front, counted)
    \/ DeserializeEar
    \/ SerializeAppraisal
    \/ \E extra \in Extras(is_human_readable), front \in BOOLEAN, counted \in BOOLEAN :
          ReceiveAppraisal(extra, front, counted)
    \/ DeserializeAppraisal

\* ------------------------------------------------------------------------
\* TrustVector and TrustClaim as a state machine: one vector, the calls a
\* holder makes on it, and the answer to the last call.
\* ------------------------------------------------------------------------
I8 == -128..127

\* The fields the holder sets or unsets, and the values it sets.
SetFields == {1, 3, 8}
SetValues == {0, 2}

LookupKeys == -1..8
LookupNames == {ClaimDescs[i].name : i \in DOMAIN ClaimDescs} \cup {"", "bogus"}

RestAtRest ==
    /\ ext = NewExtensions
    /\ is_human_readable = FALSE
    /\ last = NoCall
    /\ out = << >>
    /\ ops = 0
    /\ ear = NewEar
    /\ CodecAtRest

TrustInit ==
    /\ tv \in {NewTrustVector} \cup {TV(1, v) : v \in I8}
    /\ seen = NoAnswer
    /\ RestAtRest
    /\ ProfAtRest
    /\ PopAtRest
    /\ NonceAtRest
    /\ SignAtRest
    /\ EqAtRest

\* tv.<field>.set(v)
SetClaim(f, v) ==
    /\ tv' = [tv EXCEPT ![f] = Some(v)]
    /\ seen' = Answer("set", FieldDescs[f].name, FieldDescs[f].key, FALSE, Ok(v))
    /\ UNCHANGED <<not_trust_vars>>

\* tv.<field>.unset()
UnsetClaim(f) ==
    /\ tv' = [tv EXCEPT ![f] = None]
    /\ seen' = Answer("unset", FieldDescs[f].name, FieldDescs[f].key, FALSE, Ok(Unset))
    /\ UNCHANGED <<not_trust_vars>>

\* tv.<field>.tier()
Tier(f) ==
    /\ seen' = Answer("tier", FieldDescs[f].name, FieldDescs[f].key, FALSE,
                      Ok([claim |-> tv[f], tier |-> tier(tv[f])]))
    /\ UNCHANGED <<tv, not_trust_vars>>

\* tv.by_key(key)
ByKey(key) ==
    /\ seen' = Answer("by_key", "", key, FALSE, by_key(tv, key))
    /\ UNCHANGED <<tv, not_trust_vars>>

\* tv.by_name(name)
ByName(name) ==
    /\ seen' = Answer("by_name", name, 0, FALSE, by_name(tv, name))
    /\ UNCHANGED <<tv, not_trust_vars>>

\* for claim in tv { .. }
Iterate ==
    /\ seen' = Answer("iter", "", 0, FALSE, Ok(into_iter(tv, 0)))
    /\ UNCHANGED <<tv, not_trust_vars>>

\* serde_json::to_string(&tv) / ciborium::into_writer(&tv, ..)
SerializeVector(hr) ==
    /\ seen' = Answer("serialize", "", 0, hr, Ok(TrustVectorSerialize(tv, hr)))
    /\ UNCHANGED <<tv, not_trust_vars>>

\* The entries of an Appraisal that holds the vector, as serialized.
SerializeHolder(hr) ==
    /\ seen' = Answer("appraisal", "", 0, hr,
                      Ok(WMap(AppraisalEntries([NewAppraisal EXCEPT !.trust_vector = tv], hr))))
    /\ UNCHANGED <<tv, not_trust_vars>>

TrustNext ==
    \/ \E f \in SetFields, v \in SetValues : SetClaim(f, v)
    \/ \E f \in SetFields : UnsetClaim(f)
    \/ \E f \in DOMAIN FieldDescs : Tier(f)
    \/ \E key \in LookupKeys : ByKey(key)
    \/ \E name \in LookupNames : ByName(name)
    \/ Iterate
    \/ \E hr \in BOOLEAN : SerializeVector(hr)
    \/ \E hr \in BOOLEAN : SerializeHolder(hr)

\* ------------------------------------------------------------------------
\* The profile registry as a state machine: threads that build a Profile,
\* register it, look profiles up, and go on changing the Profiles they hold.
\* ------------------------------------------------------------------------
Threads == {1, 2}
ProfileIds == {"p", "q"}

\* The extension each thread declares when it builds its Profile, and the
\* one it declares when it changes a Profile it holds.
ThreadExt == <<"foo", "bar">>

Built(t, id) == register_ear_extension(NewProfile(id), ThreadExt[t], t, "String").ext

Idle(t) == [pc |-> "idle", mine |-> t, got |-> 0, id |-> "",
            res |-> [op |-> "none", id |-> "", ok |-> TRUE, found |-> FALSE, value |-> Unset]]

Result(op, id, ok, found, value) ==
    [op |-> op, id |-> id, ok |-> ok, found |-> found, value |-> value]

NoHistory == [first |-> << >>, wins |-> [id \in ProfileIds |-> 0],
              fails |-> [id \in ProfileIds |-> 0]]

ProfInit ==
    /\ PROFILE_REGISTER = << >>
    /\ \E ids \in [Threads -> ProfileIds] : heap = [t \in Threads |-> Built(t, ids[t])]
    /\ lock = 0
    /\ th = [t \in Threads |-> Idle(t)]
    /\ hist = NoHistory
    /\ calls = 0
    /\ RestAtRest
    /\ TrustAtRest
    /\ PopAtRest
    /\ NonceAtRest
    /\ SignAtRest
    /\ EqAtRest

\* A lock that never makes its caller wait.
Free_Always(l) == TRUE

\* PROFILE_REGISTER.lock(): the Mutex is free
Free(l) == l = 0

\* An insert that stores the caller's Profile itself.
Cloned_Aliased(h, a) == [heap |-> h, at |-> a]

\* profile.clone() / .cloned(): a new object with the value of the one at a
Cloned(h, a) == [heap |-> Append(h, h[a]), at |-> Len(h) + 1]

\* thread t calls register_profile(&its profile)
CallRegister(t) ==
    /\ th[t].pc = "idle"
    /\ calls < MaxCalls
    /\ calls' = calls + 1
    /\ th' = [th EXCEPT ![t].pc = "reg_lock", ![t].id = heap[th[t].mine].id]
    /\ UNCHANGED <<PROFILE_REGISTER, heap, lock, hist, not_prof_vars>>

\* thread t calls get_profile(id)
CallGet(t, id) ==
    /\ th[t].pc = "idle"
    /\ calls < MaxCalls
    /\ calls' = calls + 1
    /\ th' = [th EXCEPT ![t].pc = "get_lock", ![t].id = id]
    /\ UNCHANGED <<PROFILE_REGISTER, heap, lock, hist, not_prof_vars>>

\* PROFILE_REGISTER.lock().unwrap(), in either function
Lock(t) ==
    /\ th[t].pc \in {"reg_lock", "get_lock"}
    /\ Free(lock)
    /\ lock' = t
    /\ th' = [th EXCEPT ![t].pc = IF th[t].pc = "reg_lock" THEN "reg_match" ELSE "get_read"]
    /\ UNCHANGED <<PROFILE_REGISTER, heap, hist, calls, not_prof_vars>>

\* register_profile: match register.get(&profile.id), the arm Some(_)
\* fails and the arm None goes on to insert
RegMatch(t) ==
    /\ th[t].pc = "reg_match"
    /\ IF th[t].id \in DOMAIN PROFILE_REGISTER
       THEN /\ th' = [th EXCEPT ![t].pc = "unlock",
                                ![t].res = Result("register", th[t].id, FALSE, TRUE, Unset)]
            /\ hist' = [hist EXCEPT !.fails[th[t].id] = @ + 1]
       ELSE /\ th' = [th EXCEPT ![t].pc = "reg_insert"]
            /\ hist' = hist
    /\ UNCHANGED <<PROFILE_REGISTER, heap, lock, calls, not_prof_vars>>

\* register.insert(profile.id.clone(), profile.clone()); Ok(())
RegInsert(t) ==
    /\ th[t].pc = "reg_insert"
    /\ heap' = Cloned(heap, th[t].mine).heap
    /\ PROFILE_REGISTER' = (th[t].id :> Cloned(heap, th[t].mine).at) @@ PROFILE_REGISTER
    /\ th' = [th EXCEPT ![t].pc = "unlock",
                        ![t].res = Result("register", th[t].id, TRUE, FALSE, Unset)]
    /\ hist' = [hist EXCEPT !.wins[th[t].id] = @ + 1,
                            !.first = IF th[t].id \in DOMAIN hist.first THEN @
                                      ELSE (th[t].id :> heap[th[t].mine]) @@ @]
    /\ UNCHANGED <<lock, calls, not_prof_vars>>

\* get_profile: register.get(id).cloned()
GetRead(t) ==
    /\ th[t].pc = "get_read"
    /\ IF th[t].id \in DOMAIN PROFILE_REGISTER
       THEN /\ heap' = Cloned(heap, PROFILE_REGISTER[th[t].id]).heap
            /\ th' = [th EXCEPT ![t].pc = "unlock",
                                ![t].got = Cloned(heap, PROFILE_REGISTER[th[t].id]).at,
                                ![t].res = Result("get", th[t].id, TRUE, TRUE,
                                                  heap[PROFILE_REGISTER[th[t].id]])]
       ELSE /\ heap' = heap
            /\ th' = [th EXCEPT ![t].pc = "unlock",
                                ![t].res = Result("get", th[t].id, TRUE, FALSE, Unset)]
    /\ UNCHANGED <<PROFILE_REGISTER, lock, hist, calls, not_prof_vars>>

\* The MutexGuard is dropped when the function returns.
Unlock(t) ==
    /\ th[t].pc = "unlock"
    /\ lock' = IF lock = t THEN 0 ELSE lock
    /\ th' = [th EXCEPT ![t].pc = "idle"]
    /\ UNCHANGED <<PROFILE_REGISTER, heap, hist, calls, not_prof_vars>>

\* thread t declares one more extension on the Profile it built, or on the
\* copy get_profile gave it
Mutate(t, a) ==
    /\ th[t].pc = "idle"
    /\ a \in {th[t].mine, th[t].got} \ {0}
    /\ calls < MaxCalls
    /\ calls' = calls + 1
    /\ heap' = [heap EXCEPT ![a] = register_ear_extension(@, "ext.more", -65537, "Integer").ext]
    /\ UNCHANGED <<PROFILE_REGISTER, lock, th, hist, not_prof_vars>>

ProfNext ==
    \E t \in Threads :
        \/ CallRegister(t)
        \/ \E id \in ProfileIds : CallGet(t, id)
        \/ Lock(t)
        \/ RegMatch(t)
        \/ RegInsert(t)
        \/ GetRead(t)
        \/ Unlock(t)
        \/ \E a \in DOMAIN heap : Mutate(t, a)

\* ------------------------------------------------------------------------
\* A Profile and the Ear it populates, as a state machine: the author
\* declares extensions on the Profile, and populate_ear_extensions is called
\* on an Ear that may have extensions of its own already.
\* ------------------------------------------------------------------------
\* The declarations an author makes: (name, key, kind).  The third takes
\* the name of the first and the key of the second.
Decls == { <<"foo", 1, "String">>, <<"bar", 2, "Integer">>, <<"foo", 2, "Bool">> }

\* An Appraisal and an Ear, as far as populate_ear_extensions reads and
\* writes them.
PopAppraisal == [extensions |-> NewExtensions]

PopSubmods ==
    { << >>, << <<"test", PopAppraisal>> >>,
      << <<"a", PopAppraisal>>, <<"test", PopAppraisal>> >> }

PopTargets ==
    [profile : ProfileIds,
     extensions : {NewExtensions, register(NewExtensions, "bar", 7, "Bytes").ext},
     submods : PopSubmods]

PopInit ==
    /\ profile = NewProfile("p")
    /\ target \in PopTargets
    /\ populated = Ok(Unset)
    /\ steps = 0
    /\ RestAtRest
    /\ TrustAtRest
    /\ ProfAtRest
    /\ NonceAtRest
    /\ SignAtRest
    /\ EqAtRest

\* profile.register_ear_extension(name, key, kind)
DeclareEar(d) ==
    /\ steps < MaxDecls
    /\ steps' = steps + 1
    /\ profile' = register_ear_extension(profile, d[1], d[2], d[3]).ext
    /\ UNCHANGED <<target, populated, not_pop_vars>>

\* profile.register_appraisal_extension(name, key, kind)
DeclareAppraisal(d) ==
    /\ steps < MaxDecls
    /\ steps' = steps + 1
    /\ profile' = register_appraisal_extension(profile, d[1], d[2], d[3]).ext
    /\ UNCHANGED <<target, populated, not_pop_vars>>

\* profile.populate_ear_extensions(&mut ear)
Populate ==
    /\ steps < MaxDecls
    /\ steps' = steps + 1
    /\ target' = populate_ear_extensions(profile, target).ext
    /\ populated' = populate_ear_extensions(profile, target).res
    /\ UNCHANGED <<profile, not_pop_vars>>

PopNext ==
    \/ \E d \in Decls : DeclareEar(d)
    \/ \E d \in Decls : DeclareAppraisal(d)
    \/ Populate

\* ------------------------------------------------------------------------
\* A Nonce as a state machine: it is made from a string, from bytes, from a
\* slice of either or from a document, and then written, alone or in an
\* Ear, in either mode.
\* ------------------------------------------------------------------------
\* A string of n characters, and n bytes.
RECURSIVE Chars(_)
Chars(n) == IF n = 0 THEN "" ELSE "n" \o Chars(n - 1)

Octets(n) == [i \in 1..n |-> 171]

\* The lengths at the ends of the ranges and next to them.
StrLens == {7, 8, 88, 89}
ByteLens == {7, 8, 64, 65}

NonceStrs == {Chars(n) : n \in StrLens}
NonceOctets == {Octets(n) : n \in ByteLens}

\* The slices of up to MaxItems items of S.
Slices(S) == UNION {[1..n -> S] : n \in 0..MaxItems}

Texts(vals) == [i \in DOMAIN vals |-> WText(vals[i])]
ByteStrings(vals) == [i \in DOMAIN vals |-> WBytes(vals[i])]

\* The documents a peer sends for a nonce: a text string, a byte string,
\* or an array of either.
NonceWires ==
    {WText(v) : v \in NonceStrs} \cup {WBytes(v) : v \in NonceOctets}
    \cup {WArray(ws) : ws \in Slices({WText(Chars(8)), WText(Chars(88)), WText(Chars(89)),
                                       WBytes(Octets(8)), WBytes(Octets(64)),
                                       WBytes(Octets(7))})}

NonceInit ==
    /\ nonce = None
    /\ made = NotMade
    /\ sent = NotSent
    /\ RestAtRest
    /\ TrustAtRest
    /\ ProfAtRest
    /\ PopAtRest
    /\ SignAtRest
    /\ EqAtRest

\* The Nonce is what the call r made, if it made one.
Make(op, input, r) ==
    /\ made = NotMade
    /\ made' = Made(op, input, r)
    /\ nonce' = IF r.ok THEN Some(r.value) ELSE None
    /\ UNCHANGED <<sent, not_nonce_vars>>

\* Nonce::try_from(v: &str)
FromStr(v) == Make("str", <<WText(v)>>, NonceOfOne(OneNonceFromStr(v)))

\* Nonce::try_from(v: &[u8])
FromBytes(v) == Make("bytes", <<WBytes(v)>>, NonceOfOne(OneNonceFromBytes(v)))

\* Nonce::try_from(vals: &[&str])
FromStrSlice(vals) == Make("str_slice", Texts(vals), NonceFromStrSlice(vals, 0))

\* Nonce::try_from(vals: &[Vec<u8>])
FromBytesSlice(vals) == Make("bytes_slice", ByteStrings(vals), NonceFromBytesSlice(vals, 0))

\* Nonce::deserialize from the document w
DecodeNonce(w) ==
    Make(IF w.kind = "array" THEN "decode_seq" ELSE "decode",
         IF w.kind = "array" THEN w.items ELSE <<w>>, NonceDeserialize(w))

\* serde_json::to_string(&nonce) / ciborium::into_writer(&nonce, ..)
SerializeNonce(hr) ==
    /\ nonce # None
    /\ sent' = Sent("nonce", hr, NonceSerialize(nonce[1], hr))
    /\ UNCHANGED <<nonce, made, not_nonce_vars>>

\* A valid Ear that carries the nonce n.
EarWith(n) ==
    [NewEar EXCEPT !.profile = "test", !.iat = 1,
                   !.vid = [build |-> "vsts 0.0.1", developer |-> "https://veraison-project.org"],
                   !.submods = << <<"test", NewAppraisal>> >>,
                   !.nonce = n]

\* The Ear that carries the nonce is serialized: serde_json::to_string or
\* sign_jwk in human-readable mode, ciborium::into_writer or sign_cose in
\* binary mode.
SerializeEarWith(hr) ==
    /\ nonce # None
    /\ sent' = Sent("ear", hr, EarSerialize(EarWith(nonce), hr))
    /\ UNCHANGED <<nonce, made, not_nonce_vars>>

NonceNext ==
    \/ \E v \in NonceStrs : FromStr(v)
    \/ \E v \in NonceOctets : FromBytes(v)
    \/ \E vals \in Slices(NonceStrs) : FromStrSlice(vals)
    \/ \E vals \in Slices(NonceOctets) : FromBytesSlice(vals)
    \/ \E w \in NonceWires : DecodeNonce(w)
    \/ \E hr \in BOOLEAN : SerializeNonce(hr)
    \/ \E hr \in BOOLEAN : SerializeEarWith(hr)

\* ------------------------------------------------------------------------
\* Signing and verification (src/ear.rs, src/algorithm.rs)
\*
\* The cryptography is that of the libraries the crate calls (jsonwebtoken,
\* cose-rust, openssl) and is taken as ideal: a key is a family and a key
\* pair, key bytes either parse or do not, and a signature verifies exactly
\* under the public key of the pair that signed, with the algorithm that
\* signed, over a token that is as it was signed.
\* ------------------------------------------------------------------------
\* enum Algorithm
Algorithm == {"PS256", "PS384", "PS512", "ES256", "ES384", "ES512", "EdDSA"}

\* The family of keys an algorithm signs with.
Matching(alg) ==
    CASE alg \in {"PS256", "PS384", "PS512"} -> "RSA"
      [] alg = "ES256" -> "P-256"
      [] alg = "ES384" -> "P-384"
      [] alg = "ES512" -> "P-521"
      [] alg = "EdDSA" -> "Ed25519"

ECFamilies == {"P-256", "P-384", "P-521"}

NotSupported == Fail("SignError", "algorithm not supported")

\* A token: the envelope, the algorithm in its header, the key that signed
\* it, the payload, and whether it is still as it was signed ("intact"),
\* was altered on the way ("tampered") or is no token at all ("malformed").
Token(format, alg, key, payload) ==
    [format |-> format, alg |-> alg, family |-> key.family, pair |-> key.pair,
     payload |-> payload, state |-> "intact"]

\* The match of alg in sign_jwt_pem, sign_jwk_der and from_jwt_jwk
jwt_alg(alg) ==
    IF alg \in {"ES256", "ES384", "EdDSA", "PS256", "PS384", "PS512"} THEN Pass(alg)
    ELSE NotSupported

\* A match that has no arm for PS512 either.
alg_to_cose_NoPS512(alg) ==
    IF alg \in {"ES256", "ES384", "ES512", "EdDSA", "PS512"} THEN Pass(alg)
    ELSE NotSupported

\* fn alg_to_cose
alg_to_cose(alg) ==
    IF alg \in {"ES256", "ES384", "ES512", "EdDSA"} THEN Pass(alg)
    ELSE NotSupported

\* jwt::encode(&header, self, key) in sign_jwk: the claims are written
\* with serde_json and signed.
sign_jwk(e, alg, key) ==
    IF ~EarSerialize(e, TRUE).ok THEN Fail("SignError", EarSerialize(e, TRUE).err)
    ELSE IF key.family # Matching(alg) THEN Fail("SignError", "InvalidKey")
    ELSE Pass(Token("jwt", alg, key, EarSerialize(e, TRUE).value))

\* Ear::sign_jwt_pem, Ear::sign_jwk_der: keyfunc is from_ec_pem,
\* from_ed_pem or from_rsa_pem (_der) by the algorithm.
sign_jwt_pem(e, alg, key) ==
    IF ~jwt_alg(alg).ok THEN jwt_alg(alg)
    ELSE IF ~key.good THEN Fail("KeyError", "InvalidKeyFormat")
    ELSE sign_jwk(e, alg, key)

\* Ear::sign_cose: the payload is written with ciborium and signed.
sign_cose(e, alg, key) ==
    IF ~EarSerialize(e, FALSE).ok THEN Fail("SignError", EarSerialize(e, FALSE).err)
    ELSE IF key.family # Matching(alg) THEN Fail("SignError", "InvalidKey")
    ELSE Pass(Token("cose", alg, key, EarSerialize(e, FALSE).value))

\* Ear::sign_cose_bytes: alg_to_cose, then the match of alg that builds the
\* CoseKey: the arm of the EC keys is ES256 | ES384 | PS512, the arm of
\* EdDSA, and any other algorithm is not supported.
sign_cose_bytes(e, alg, key) ==
    IF ~alg_to_cose(alg).ok THEN alg_to_cose(alg)
    ELSE IF alg \in {"ES256", "ES384", "PS512"}
    THEN IF ~key.good \/ key.family \notin ECFamilies
         THEN Fail("KeyError", "no EC private key")
         ELSE sign_cose(e, alg, key)
    ELSE IF alg = "EdDSA"
    THEN IF ~key.good \/ key.family # "Ed25519"
         THEN Fail("KeyError", "no raw private key")
         ELSE sign_cose(e, alg, key)
    ELSE NotSupported

\* jwt::decode(token, key, &validation) in Ear::from_jwt, and the claims
\* read with serde_json.
from_jwt(t, alg, key) ==
    IF t.format # "jwt" \/ t.state = "malformed" THEN Fail("VerifyError", "InvalidToken")
    ELSE IF t.alg # alg THEN Fail("VerifyError", "InvalidAlgorithm")
    ELSE IF t.state # "intact" \/ key.family # t.family \/ key.pair # t.pair
    THEN Fail("VerifyError", "InvalidSignature")
    ELSE IF ~EarDeserialize(t.payload, TRUE).ok
    THEN Fail("VerifyError", EarDeserialize(t.payload, TRUE).err)
    ELSE Pass(EarDeserialize(t.payload, TRUE).value)

\* Ear::from_jwt_jwk: the key is parsed first, then the algorithm matched.
from_jwt_jwk(t, alg, key) ==
    IF ~key.good THEN Fail("KeyError", "no JWK")
    ELSE IF ~jwt_alg(alg).ok THEN jwt_alg(alg)
    ELSE from_jwt(t, alg, key)

\* A from_cose that hands back the errors of the decoder.
from_cose_Checked(t, alg, key) ==
    IF t.format # "cose" \/ t.state = "malformed" THEN Fail("VerifyError", "init_decoder")
    ELSE IF t.alg # alg \/ key.family # Matching(alg) THEN Fail("VerifyError", "key")
    ELSE IF t.state # "intact" \/ key.family # t.family \/ key.pair # t.pair
    THEN Fail("VerifyError", "decode")
    ELSE IF ~EarDeserialize(t.payload, FALSE).ok
    THEN Fail("VerifyError", EarDeserialize(t.payload, FALSE).err)
    ELSE Pass(EarDeserialize(t.payload, FALSE).value)

\* Ear::from_cose: init_decoder(None).unwrap(), key(key).unwrap(),
\* decode(None, None).unwrap(), then the payload read with ciborium.  alg
\* is the algorithm of the CoseKey.
from_cose(t, alg, key) ==
    IF t.format # "cose" \/ t.state = "malformed" THEN Panicked
    ELSE IF t.alg # alg \/ key.family # Matching(alg) THEN Panicked
    ELSE IF t.state # "intact" \/ key.family # t.family \/ key.pair # t.pair
    THEN Panicked
    ELSE IF ~EarDeserialize(t.payload, FALSE).ok
    THEN Fail("VerifyError", EarDeserialize(t.payload, FALSE).err)
    ELSE Pass(EarDeserialize(t.payload, FALSE).value)

\* The algorithm of the CoseKey in from_cose_jwk: that of the JWK if it
\* names one, the one asked for otherwise.
CoseKeyAlg(alg, key) ==
    IF key.alg = "" THEN Pass(alg)
    ELSE IF key.alg \in {"ES256", "ES384", "EdDSA"} THEN Pass(key.alg)
    ELSE Fail("KeyError", "unsupported algorithm")

\* Ear::from_cose_jwk
from_cose_jwk(t, alg, key) ==
    IF ~key.good THEN Fail("KeyError", "no JWK")
    ELSE IF ~alg_to_cose(alg).ok THEN alg_to_cose(alg)
    ELSE IF ~CoseKeyAlg(alg, key).ok THEN CoseKeyAlg(alg, key)
    ELSE IF key.family \notin ECFamilies \cup {"Ed25519"}
    THEN Fail("KeyError", "unsupported algorithm params")
    ELSE from_cose(t, CoseKeyAlg(alg, key).value, key)

\* ------------------------------------------------------------------------
\* Signing and verification as a state machine: an Ear is signed, here or
\* by a peer, the token may be altered on its way, and it is verified.
\* ------------------------------------------------------------------------
TestVerifierID == [build |-> "vsts 0.0.1", developer |-> "https://veraison-project.org"]

\* The Ear of the tests sign_jwk and cose.
TestEar ==
    [NewEar EXCEPT !.profile = "test", !.iat = 1, !.vid = TestVerifierID,
                   !.submods = << <<"test", NewAppraisal>> >>]

\* The Ears that are signed: the Ear of the tests, the same with claims,
\* a policy id and two submods, with a key attestation, with a nonce of
\* either kind, and one that is not valid.
SignEars ==
    { TestEar,
      [TestEar EXCEPT !.submods =
          << <<"a", [NewAppraisal EXCEPT !.policy_id = Some("policy")]>>,
             <<"test", [NewAppraisal EXCEPT !.status = "affirming",
                                            !.trust_vector = TV(2, 2)]>> >>],
      [TestEar EXCEPT !.submods =
          << <<"test", [NewAppraisal EXCEPT !.key_attestation =
                                               Some([pub_key |-> DeadBeef])]>> >>],
      [TestEar EXCEPT !.nonce = Some(<<OneNonceString("test value")>>)],
      [TestEar EXCEPT !.nonce = Some(<<OneNonceBytes(Bytes8)>>)],
      [TestEar EXCEPT !.iat = 0] }

KeyPairs == 1..2

\* The private keys given to sign with alg: a key of its family, of either
\* pair, and bytes that are no key.
SignKeys(alg) ==
    {[family |-> Matching(alg), pair |-> p, good |-> TRUE, alg |-> ""] : p \in KeyPairs}
    \cup {[family |-> Matching(alg), pair |-> 0, good |-> FALSE, alg |-> ""]}

\* The JWKs given to verify: the public key of either pair, of any family,
\* naming an algorithm or none, and bytes that are no JWK.
Jwks ==
    {[family |-> f, pair |-> p, good |-> TRUE, alg |-> a] :
        f \in {"RSA", "P-256", "P-384", "P-521", "Ed25519"}, p \in KeyPairs,
        a \in {"", "ES256", "RS256"}}
    \cup {[family |-> "", pair |-> 0, good |-> FALSE, alg |-> ""]}

SignInit ==
    /\ ear \in SignEars
    /\ token = NotSigned
    /\ verified = NotSigned
    /\ ext = NewExtensions
    /\ is_human_readable = FALSE
    /\ last = NoCall
    /\ out = << >>
    /\ ops = 0
    /\ CodecAtRest
    /\ TrustAtRest
    /\ ProfAtRest
    /\ PopAtRest
    /\ NonceAtRest
    /\ EqAtRest

\* ear.sign_jwt_pem(alg, key) / ear.sign_jwk_der(alg, key)
SignJwt(alg, key) ==
    /\ token = NotSigned
    /\ token' = Signing("sign_jwt", alg, key, sign_jwt_pem(ear, alg, key))
    /\ UNCHANGED <<ear, verified, not_sign_vars>>

\* ear.sign_cose_pem(alg, key) / ear.sign_cose_der(alg, key)
SignCose(alg, key) ==
    /\ token = NotSigned
    /\ token' = Signing("sign_cose", alg, key, sign_cose_bytes(ear, alg, key))
    /\ UNCHANGED <<ear, verified, not_sign_vars>>

\* A peer signs the Ear, in either envelope and with any algorithm; its
\* documents are those this crate would write.
PeerSigns(format, alg, p) ==
    /\ token = NotSigned
    /\ EarSerialize(ear, format = "jwt").ok
    /\ token' = Signing("peer", alg, NoKey,
                  Pass(Token(format, alg, [family |-> Matching(alg), pair |-> p],
                             EarSerialize(ear, format = "jwt").value)))
    /\ UNCHANGED <<ear, verified, not_sign_vars>>

\* The token is altered on its way, or cut short.
Damage(how) ==
    /\ token.ok
    /\ token.op # "none"
    /\ token.value.state = "intact"
    /\ verified = NotSigned
    /\ token' = [token EXCEPT !.value.state = how]
    /\ UNCHANGED <<ear, verified, not_sign_vars>>

\* Ear::from_jwt_jwk(token, alg, key)
VerifyJwt(alg, key) ==
    /\ token.ok
    /\ token.op # "none"
    /\ token.value.format = "jwt"
    /\ verified = NotSigned
    /\ verified' = Signing("from_jwt_jwk", alg, key, from_jwt_jwk(token.value, alg, key))
    /\ UNCHANGED <<ear, token, not_sign_vars>>

\* Ear::from_cose_jwk(token, alg, key)
VerifyCose(alg, key) ==
    /\ token.ok
    /\ token.op # "none"
    /\ token.value.format = "cose"
    /\ verified = NotSigned
    /\ verified' = Signing("from_cose_jwk", alg, key, from_cose_jwk(token.value, alg, key))
    /\ UNCHANGED <<ear, token, not_sign_vars>>

SignNext ==
    \/ \E alg \in Algorithm : \E key \in SignKeys(alg) : SignJwt(alg, key)
    \/ \E alg \in Algorithm : \E key \in SignKeys(alg) : SignCose(alg, key)
    \/ \E format \in {"jwt", "cose"}, alg \in Algorithm, p \in KeyPairs :
          PeerSigns(format, alg, p)
    \/ \E how \in {"tampered", "malformed"} : Damage(how)
    \/ \E alg \in Algorithm, key \in Jwks : VerifyJwt(alg, key)
    \/ \E alg \in Algorithm, key \in Jwks : VerifyCose(alg, key)

\* ------------------------------------------------------------------------
\* Deserialization with a profile registered: the registry holds a Profile
\* under the id "test", which declares the extension "ext.unknown" (key
\* -99999, an Integer) for the Ear and for its Appraisals, and documents of
\* that profile are written, received and read.
\* ------------------------------------------------------------------------
TestProfile ==
    register_appraisal_extension(
        register_ear_extension(NewProfile("test"), "ext.unknown", -99999, "Integer").ext,
        "ext.unknown", -99999, "Integer").ext

ProfiledInit ==
    /\ PROFILE_REGISTER = ("test" :> 1)
    /\ heap = <<TestProfile>>
    /\ lock = 0
    /\ th = << >>
    /\ hist = << >>
    /\ calls = 0
    /\ ear \in SignEars
    /\ is_human_readable \in BOOLEAN
    /\ CodecAtRest
    /\ ext = NewExtensions
    /\ last = NoCall
    /\ out = << >>
    /\ ops = 0
    /\ TrustAtRest
    /\ PopAtRest
    /\ NonceAtRest
    /\ SignAtRest
    /\ EqAtRest

ProfiledNext ==
    \/ SerializeEar
    \/ \E extra \in Extras(is_human_readable), front \in BOOLEAN, counted \in BOOLEAN :
          ReceiveEar(extra, front, counted)
    \/ DeserializeEar

\* ------------------------------------------------------------------------
\* The status of the Appraisals of an Ear as a state machine: claims are
\* set, a status is assigned, and the status is updated from the trust
\* vector, of one Appraisal or of the whole Ear.  seen is the last call and
\* the submod it was made on.
\* ------------------------------------------------------------------------
StatusFields == {1, 8}
StatusValues == {2, 32, -97}

StatusInit ==
    /\ ear \in { TestEar,
                 [TestEar EXCEPT !.submods = << <<"a", NewAppraisal>>,
                                               <<"test", NewAppraisal>> >>] }
    /\ seen = NoAnswer
    /\ tv = NewTrustVector
    /\ ext = NewExtensions
    /\ is_human_readable = FALSE
    /\ last = NoCall
    /\ out = << >>
    /\ ops = 0
    /\ CodecAtRest
    /\ ProfAtRest
    /\ PopAtRest
    /\ NonceAtRest
    /\ SignAtRest
    /\ EqAtRest

StatusStep(op, j, e) ==
    /\ ear' = e
    /\ seen' = Answer(op, ear.submods[j][1], j, FALSE, Ok(Unset))
    /\ UNCHANGED <<tv, wire, back, ext_vars, prof_vars, pop_vars, nonce_vars, sign_vars, eq_vars>>

\* ear.submods[name].trust_vector.<field>.set(v)
SetSubmodClaim(j, f, v) ==
    StatusStep("set_claim", j, [ear EXCEPT !.submods[j][2].trust_vector[f] = Some(v)])

\* ear.submods[name].status = t
AssignStatus(j, t) == StatusStep("assign", j, [ear EXCEPT !.submods[j][2].status = t])

\* ear.submods[name].update_status_from_trust_vector()
UpdateAppraisal(j) ==
    StatusStep("update_appraisal", j,
               [ear EXCEPT !.submods[j][2] = update_status_from_trust_vector(@)])

\* ear.update_status_from_trust_vector()
UpdateEar == StatusStep("update_ear", 1, EarUpdateStatus(ear))

StatusNext ==
    \/ \E j \in DOMAIN ear.submods, f \in StatusFields, v \in StatusValues :
          SetSubmodClaim(j, f, v)
    \/ \E j \in DOMAIN ear.submods, t \in {"none", "affirming", "warning", "contraindicated"} :
          AssignStatus(j, t)
    \/ \E j \in DOMAIN ear.submods : UpdateAppraisal(j)
    \/ UpdateEar

\* ------------------------------------------------------------------------
\* Two Extensions as a state machine: slots are registered and set on
\* either, and the two are compared, each way round.
\* ------------------------------------------------------------------------
EqKinds == {"String", "Integer"}
EqValues == {StringV("bar"), StringV("3q2-7w"), IntegerV(42)}

EqInit ==
    /\ ExtInit
    /\ is_human_readable = FALSE
    /\ ear = NewEar
    /\ CodecAtRest
    /\ TrustAtRest
    /\ ProfAtRest
    /\ PopAtRest
    /\ NonceAtRest
    /\ SignAtRest
    /\ EqAtRest

EqStep(a, b, r) ==
    /\ ext' = a
    /\ other' = b
    /\ equal' = r
    /\ UNCHANGED <<is_human_readable, last, out, ops, codec_vars, trust_vars, prof_vars,
                   pop_vars, nonce_vars, sign_vars>>

\* a.register(name, key, kind)
RegisterOnExt(name, key, k) == EqStep(register(ext, name, key, k).ext, other, NotCompared)

\* b.register(name, key, kind)
RegisterOnOther(name, key, k) == EqStep(ext, register(other, name, key, k).ext, NotCompared)

\* a.set_by_name(name, value)
SetOnExt(name, v) == EqStep(set_by_name(ext, name, v).ext, other, NotCompared)

\* b.set_by_key(key, value)
SetOnOther(key, v) == EqStep(ext, set_by_key(other, key, v).ext, NotCompared)

\* a == b and b == a
Compare ==
    /\ ~equal.done
    /\ EqStep(ext, other, Compared(ExtensionsEq(ext, other), ExtensionsEq(other, ext)))

EqNext ==
    \/ \E name \in Names, key \in Keys, k \in EqKinds : RegisterOnExt(name, key, k)
    \/ \E name \in Names, key \in Keys, k \in EqKinds : RegisterOnOther(name, key, k)
    \/ \E name \in Names, v \in EqValues : SetOnExt(name, v)
    \/ \E key \in Keys, v \in EqValues : SetOnOther(key, v)
    \/ Compare

vars ==
    <<ext, is_human_readable, last, out, ops, ear, wire, back, tv, seen,
      PROFILE_REGISTER, heap, lock, th, hist, calls,
      profile, target, populated, steps, nonce, made, sent, token, verified,
      other, equal>>

Init ==
    /\ ExtInit
    /\ ear = NewEar
    /\ CodecAtRest
    /\ UnitAtRest

Next == ExtNext

Spec == Init /\ [][Next]_vars

SpecCodec == CodecInit /\ [][CodecNext]_vars

SpecTrust == TrustInit /\ [][TrustNext]_vars

SpecProfile == ProfInit /\ [][ProfNext]_vars

SpecPopulate == PopInit /\ [][PopNext]_vars

SpecNonce == NonceInit /\ [][NonceNext]_vars

SpecSign == SignInit /\ [][SignNext]_vars

SpecProfiled == ProfiledInit /\ [][ProfiledNext]_vars

SpecStatus == StatusInit /\ [][StatusNext]_vars

SpecEq == EqInit /\ [][EqNext]_vars

\* ------------------------------------------------------------------------
\* Properties of the registry
\* ------------------------------------------------------------------------
\* The step is a call register(name, key, k).
IsRegister(name, key, k) ==
    /\ ops' = ops + 1
    /\ last'.op = "register"
    /\ last'.name = name /\ last'.key = key /\ last'.kind = k

\* Neither identifier is bound before the step.
Unbound(name, key) == name \notin DOMAIN ext.by_name /\ key \notin DOMAIN ext.by_key

\* The kind conversions the specification defines: string <-> bytes.
Conversions == { <<"String", "Bytes">>, <<"Bytes", "String">> }

\* C4: a value v collected under the name or the key of a registration
\* becomes the value of the new slot, read by get_by_name and get_by_key
\* right after register, when v is of the declared kind; when the kinds
\* differ and no conversion is defined, register fails with a kind mismatch
\* (and registers nothing).
C4_CollectedValueAdopted ==
    [][ \A name \in Names, key \in Keys, k \in ExtensionKind :
          (IsRegister(name, key, k) /\ Unbound(name, key)) =>
            \A id \in {CKey(key), CName(name)} \cap DOMAIN ext.collected :
              LET v == ext.collected[id]
              IN /\ (v.kind = k) =>
                      /\ last'.ok
                      /\ get_by_name(ext', name) = Some(v)
                      /\ get_by_key(ext', key) = Some(v)
                 /\ (v.kind # k /\ <<v.kind, k>> \notin Conversions) =>
                      /\ ~last'.ok
                      /\ last'.err = "kind mismatch"
                      /\ ext' = ext
      ]_vars

C4_Witness ==
    /\ last.op = "register" /\ last.ok
    /\ \E id \in {CKey(last.key), CName(last.name)} \cap DOMAIN ext.collected :
          /\ ext.collected[id].kind = "String"
          /\ get_by_name(ext, last.name) = Some(ext.collected[id])
          /\ get_by_key(ext, last.key) = Some(ext.collected[id])

\* What a caller sees of the two orders of one registration and one
\* decoded entry: whether both calls succeeded, and then the value read
\* back through the name and through the key.
Seen(d, name, key) ==
    IF d.res.ok
    THEN [ok |-> TRUE, by_name |-> get_by_name(d.ext, name), by_key |-> get_by_key(d.ext, key)]
    ELSE [ok |-> FALSE, by_name |-> None, by_key |-> None]

visit_map_entry(e, name, key, w, hr) ==
    IF hr THEN visit_map_entry_by_name(e, name, w, hr)
    ELSE visit_map_entry_by_key(e, key, w, hr)

RegisterThenVisit(e, name, key, k, w, hr) ==
    LET r == register(e, name, key, k)
    IN IF r.res.ok THEN visit_map_entry(r.ext, name, key, w, hr) ELSE r

VisitThenRegister(e, name, key, k, w, hr) ==
    LET v == visit_map_entry(e, name, key, w, hr)
    IN IF v.res.ok THEN register(v.ext, name, key, k) ELSE v

Fresh(e, name, key) ==
    /\ ~have_name(e, name) /\ ~have_key(e, key)
    /\ CName(name) \notin DOMAIN e.collected /\ CKey(key) \notin DOMAIN e.collected

\* C5: for every identifier not yet known to the registry, every declared
\* kind and every wire value, register-then-visit and visit-then-register
\* end the same way: both succeed with the same value read back, or both
\* fail.
C5_OrderIndependent ==
    \A name \in Names, key \in Keys, k \in ExtensionKind, w \in WireValues(is_human_readable) :
        Fresh(ext, name, key) =>
            Seen(RegisterThenVisit(ext, name, key, k, w, is_human_readable), name, key)
              = Seen(VisitThenRegister(ext, name, key, k, w, is_human_readable), name, key)

\* C6: register fails when the name or the key is already bound, and then
\* the registry (names, keys, every slot's kind and value, the collected
\* buffer) is as before the call.
C6_DuplicateRegisterFails ==
    [][ \A name \in Names, key \in Keys, k \in ExtensionKind :
          (IsRegister(name, key, k) /\ ~Unbound(name, key)) =>
            /\ ~last'.ok
            /\ last'.err \in {"name already registered", "key already registered"}
            /\ ext' = ext
      ]_vars

C6_Witness ==
    /\ last.op = "register" /\ ~last.ok
    /\ last.err = "key already registered"
    /\ last.name \notin DOMAIN ext.by_name
    /\ last.key \in DOMAIN ext.by_key

\* C7: registering over a collected value of another kind converts it in
\* both directions between String and Bytes (a String that is base64 text
\* becomes the bytes it encodes, Bytes become their base64 text) and fails
\* with a kind mismatch for every other disagreement.
C7_ConvertsBothWays ==
    [][ \A name \in Names, key \in Keys, k \in ExtensionKind :
          (IsRegister(name, key, k) /\ Unbound(name, key)) =>
            \A id \in {CKey(key), CName(name)} \cap DOMAIN ext.collected :
              LET v == ext.collected[id]
              IN /\ (v.kind = "String" /\ k = "Bytes" /\ B64Decode(v.s).ok) =>
                      /\ last'.ok
                      /\ get_by_name(ext', name) = Some(B64Decode(v.s).value)
                 /\ (v.kind = "Bytes" /\ k = "String") =>
                      /\ last'.ok
                      /\ get_by_name(ext', name) = Some(StringV(B64Encode(v.b)))
                 /\ (v.kind # k /\ <<v.kind, k>> \notin Conversions) =>
                      /\ ~last'.ok
                      /\ last'.err = "kind mismatch"
      ]_vars

\* The step is a call set_by_name or set_by_key.
IsSet == ops' = ops + 1 /\ last'.op \in {"set_by_name", "set_by_key"}

\* C8: set_by_name and set_by_key fail with "not registered" for an
\* unregistered identifier and with "kind mismatch" for a value of another
\* kind than the slot's, and then change nothing; on success only the value
\* of the addressed slot changes.
C8_SetFailsCleanly ==
    [][ IsSet =>
          LET found == IF last'.op = "set_by_name"
                       THEN last'.name \in DOMAIN ext.by_name
                       ELSE last'.key \in DOMAIN ext.by_key
              slot == IF last'.op = "set_by_name"
                      THEN ext.by_name[last'.name]
                      ELSE ext.by_key[last'.key]
          IN /\ ~found => (~last'.ok /\ last'.err = "not registered" /\ ext' = ext)
             /\ (found /\ last'.value.kind # ext.slots[slot].kind) =>
                    (~last'.ok /\ last'.err = "kind mismatch" /\ ext' = ext)
             /\ (found /\ last'.value.kind = ext.slots[slot].kind) =>
                    (last'.ok /\ ext' = [ext EXCEPT !.slots[slot].value = last'.value])
      ]_vars

C8_Witness ==
    /\ last.op = "set_by_name" /\ ~last.ok /\ last.err = "kind mismatch"
    /\ last.name \in DOMAIN ext.by_name
    /\ ext.slots[ext.by_name[last.name]].kind # last.value.kind

\* C9: every slot is reached by exactly one name and exactly one key; a
\* name and a key registered together reach the same slot from then on, so
\* get_by_name = get_by_key and get_kind_by_name = get_kind_by_key for the
\* pair, and a value set through one of them is read through the other.
C9_SlotReachedOnce ==
    \A i \in 1..Len(ext.slots) :
        /\ Cardinality({n \in DOMAIN ext.by_name : ext.by_name[n] = i}) = 1
        /\ Cardinality({k \in DOMAIN ext.by_key : ext.by_key[k] = i}) = 1

C9_PairedStep ==
    /\ \A name \in Names, key \in Keys, k \in ExtensionKind :
          (IsRegister(name, key, k) /\ last'.ok) =>
              /\ get_by_name(ext', name) = get_by_key(ext', key)
              /\ get_kind_by_name(ext', name) = get_kind_by_key(ext', key)
              /\ ext'.by_name[name] = ext'.by_key[key]
    /\ \A name \in DOMAIN ext.by_name, key \in DOMAIN ext.by_key :
          (ext.by_name[name] = ext.by_key[key]) =>
              /\ name \in DOMAIN ext'.by_name /\ key \in DOMAIN ext'.by_key
              /\ ext'.by_name[name] = ext'.by_key[key]
              /\ get_by_name(ext', name) = get_by_key(ext', key)
              /\ get_kind_by_name(ext', name) = get_kind_by_key(ext', key)
              /\ (IsSet /\ last'.ok /\ last'.op = "set_by_key" /\ last'.key = key) =>
                    get_by_name(ext', name) = Some(last'.value)
              /\ (IsSet /\ last'.ok /\ last'.op = "set_by_name" /\ last'.name = name) =>
                    get_by_key(ext', key) = Some(last'.value)

C9_SharedSlots == []C9_SlotReachedOnce /\ [][C9_PairedStep]_vars

C9_Witness ==
    /\ last.op = "set_by_key" /\ last.ok
    /\ \E name \in DOMAIN ext.by_name :
          /\ ext.by_name[name] = ext.by_key[last.key]
          /\ get_by_name(ext, name) = Some(last.value)

\* C10: serialize_to_map_by_name (by_key) writes exactly one entry, under
\* its name (key) and with its value, for each registered slot whose value
\* is set, none for an unset slot and none for a value that was only
\* collected; it leaves the registry as it was.
EntriesFor(id) == {i \in 1..Len(out) : out[i].id = id}

C10_OutIsSetSlots ==
    /\ (last.op = "serialize_by_name") =>
          /\ \A i \in 1..Len(out) : out[i].id.t = "Name"
          /\ \A name \in Names :
                IF name \in DOMAIN ext.by_name /\ ext.slots[ext.by_name[name]].value # Unset
                THEN /\ Cardinality(EntriesFor(CName(name))) = 1
                     /\ \A i \in EntriesFor(CName(name)) :
                            out[i].value = ext.slots[ext.by_name[name]].value
                ELSE EntriesFor(CName(name)) = {}
    /\ (last.op = "serialize_by_key") =>
          /\ \A i \in 1..Len(out) : out[i].id.t = "Key"
          /\ \A key \in Keys :
                IF key \in DOMAIN ext.by_key /\ ext.slots[ext.by_key[key]].value # Unset
                THEN /\ Cardinality(EntriesFor(CKey(key))) = 1
                     /\ \A i \in EntriesFor(CKey(key)) :
                            out[i].value = ext.slots[ext.by_key[key]].value
                ELSE EntriesFor(CKey(key)) = {}

C10_SerializeOnlySetSlots ==
    /\ []C10_OutIsSetSlots
    /\ [][(ops' = ops + 1 /\ last'.op \in {"serialize_by_name", "serialize_by_key"})
            => ext' = ext]_vars

C10_Witness ==
    /\ last.op = "serialize_by_name"
    /\ Len(out) = 1
    /\ \E name \in DOMAIN ext.by_name : ext.slots[ext.by_name[name]].value = Unset

\* ------------------------------------------------------------------------
\* Properties of the codec
\* ------------------------------------------------------------------------
\* The structural conditions of validity, on the fields themselves.
Valid(e) ==
    /\ e.profile # ""
    /\ e.submods # <<>>
    /\ e.iat # 0
    /\ e.vid.build # ""
    /\ e.vid.developer # ""

\* The nonce can be written in this mode: text in JSON, bytes in CBOR.
NonceFits(e, hr) ==
    e.nonce = None \/ \A i \in DOMAIN e.nonce[1] : (e.nonce[1][i].kind = "String") = hr

\* A RawValue that holds a tag or a byte string.
RECURSIVE TagOrBytes(_)
TagOrBytes(v) ==
    \/ v.kind \in {"Tagged", "Bytes"}
    \/ \E i \in DOMAIN v.items : TagOrBytes(v.items[i])

\* The known exception of the round trip: a tag or a byte string among the
\* annotated evidence or the policy claims, written in human-readable mode.
Lossy(a, hr) ==
    /\ hr
    /\ \/ \E i \in DOMAIN a.annotated_evidence : TagOrBytes(a.annotated_evidence[i][2])
       \/ \E i \in DOMAIN a.policy_claims : TagOrBytes(a.policy_claims[i][2])

LossyEar(e, hr) == \E i \in DOMAIN e.submods : Lossy(e.submods[i][2], hr)

Written(entity) == wire.entity = entity /\ wire.by = "serialize"

\* C1: a valid Ear, and an Appraisal, survives the round trip in either
\* mode: the document written by the serializer decodes, and to a value
\* equal to the one written, key_attestation included.  Left out are the
\* tag or byte-string values written in human-readable mode, and a nonce
\* the mode cannot write.
C1_RoundTrip ==
    /\ (Written("ear") /\ Valid(ear) /\ NonceFits(ear, is_human_readable)) => wire.ok
    /\ (Written("ear") /\ back.entity = "ear" /\ ~LossyEar(ear, is_human_readable))
          => (back.ok /\ EarEq(back.value, ear))
    /\ (Written("appraisal") /\ back.entity = "appraisal"
          /\ ~Lossy(ear.submods[1][2], is_human_readable))
          => (back.ok /\ AppraisalEq(back.value, ear.submods[1][2]))

\* The round trip of the values without a key attestation.
NoKeyAttestation(e) == \A i \in DOMAIN e.submods : e.submods[i][2].key_attestation = None

RoundTripWithoutKeyAttestation == NoKeyAttestation(ear) => C1_RoundTrip

\* The document is the peer's, without any unknown entry.
FromPeer(entity) == wire.entity = entity /\ wire.by = "peer" /\ ~wire.extra

\* C2: validation is part of the codec.  Serializing an Ear that is not
\* valid fails with a validation error and writes nothing; every Ear that
\* deserialization returns is valid; and an Ear with a profile and no
\* submods fails to serialize, and its document fails to deserialize, with
\* the error "empty submods".
C2_ValidationFolded ==
    /\ (Written("ear") /\ ~Valid(ear))
          => /\ ~wire.ok
             /\ wire.value = Unset
             /\ wire.err \in {"empty profile", "empty submods", "iat unset",
                              "verifier-id: empty build"}
    /\ (back.entity = "ear" /\ back.ok) => Valid(back.value)
    /\ (Written("ear") /\ ear.profile # "" /\ ear.submods = <<>>)
          => (~wire.ok /\ wire.err = "empty submods")
    /\ (FromPeer("ear") /\ back.entity = "ear" /\ ear.profile # "" /\ ear.submods = <<>>)
          => (~back.ok /\ back.err = "empty submods")

\* An Ear with a profile and no submods was serialized, or its document
\* deserialized, and the error was "empty submods".
C2_Witness ==
    /\ FromPeer("ear")
    /\ back.entity = "ear"
    /\ ear.profile # ""
    /\ ear.submods = <<>>
    /\ back.err = "empty submods"

\* C2 as stated: any Ear with no submods, whatever its profile, fails with
\* the error "empty submods" on encode and on decode.
C2_EmptySubmodsNamed ==
    /\ (Written("ear") /\ ear.submods = <<>>)
          => (~wire.ok /\ wire.err = "empty submods")
    /\ (FromPeer("ear") /\ back.entity = "ear" /\ ear.submods = <<>>)
          => (~back.ok /\ back.err = "empty submods")

\* The document of the peer without its unknown entry, deserialized.
PlainEar == EarDeserialize(WMap(EarEntries(ear, is_human_readable).value), is_human_readable)

PlainAppraisal ==
    AppraisalDeserialize(WMap(AppraisalEntries(ear.submods[1][2], is_human_readable)),
                         is_human_readable)

Unknown(entity) == wire.entity = entity /\ wire.by = "peer" /\ wire.extra

\* C3: an entry that is no known field does not fail the decode of an Ear
\* or of an Appraisal, and the known fields decode as they do without it.
C3_UnknownEntriesKept ==
    /\ (Unknown("ear") /\ back.entity = "ear" /\ PlainEar.ok)
          => (back.ok /\ EarEq(back.value, PlainEar.value))
    /\ (Unknown("appraisal") /\ back.entity = "appraisal" /\ PlainAppraisal.ok)
          => (back.ok /\ AppraisalEq(back.value, PlainAppraisal.value))

\* ------------------------------------------------------------------------
\* Properties of TrustClaim and TrustVector
\* ------------------------------------------------------------------------
\* The tier of each band of values.
BandTier(v, none, affirming, warning) ==
    IF v \in none THEN "none"
    ELSE IF v \in affirming THEN "affirming"
    ELSE IF v \in warning THEN "warning"
    ELSE "contraindicated"

\* The value the last tier() call was made on; an unset claim counts as 0.
TierAsked == IF seen.value.claim = None THEN 0 ELSE seen.value.claim[1]

\* C11: tier() maps every signed 8-bit value v (unset counts as 0) to None
\* for v in -1..1, Affirming for v in -32..-2 or 2..31, Warning for v in
\* -96..-33 or 32..95, and Contraindicated for v <= -97 or v >= 96.
C11_TierBands ==
    (seen.op = "tier") =>
        /\ TierAsked \in I8
        /\ seen.value.tier =
              BandTier(TierAsked, -1..1, (-32..-2) \cup (2..31), (-96..-33) \cup (32..95))

C11_Witness ==
    /\ seen.op = "tier"
    /\ seen.value.claim = Some(-32)
    /\ seen.value.tier = "affirming"

\* C11 as stated: Affirming for v in -31..-2 or 2..31, Warning for v in
\* -95..-32 or 32..95, Contraindicated for v <= -96 or v >= 96.
C11_TierAsStated ==
    (seen.op = "tier") =>
        seen.value.tier =
            BandTier(TierAsked, -1..1, (-31..-2) \cup (2..31), (-95..-32) \cup (32..95))

\* ------------------------------------------------------------------------
\* Properties of the profile registry
\* ------------------------------------------------------------------------
\* Thread t's call register_profile returns in this step.
RegisterReturns(t) ==
    /\ th[t].pc \in {"reg_match", "reg_insert"}
    /\ th'[t].pc = "unlock"

\* The stored Profile of every id is the one first inserted under it, and
\* so is every Profile get_profile has returned.
C12_StoredIsFirst ==
    /\ \A id \in DOMAIN PROFILE_REGISTER :
          /\ id \in DOMAIN hist.first
          /\ heap[PROFILE_REGISTER[id]] = hist.first[id]
    /\ \A t \in DOMAIN th :
          (th[t].res.op = "get" /\ th[t].res.found) => th[t].res.value = hist.first[th[t].res.id]

C12_Step ==
    /\ DOMAIN PROFILE_REGISTER \subseteq DOMAIN PROFILE_REGISTER'
    /\ \A t \in DOMAIN th :
          RegisterReturns(t) =>
            /\ th'[t].res.ok = (th[t].id \notin DOMAIN PROFILE_REGISTER)
            /\ th'[t].res.ok =>
                  /\ th[t].id \in DOMAIN PROFILE_REGISTER'
                  /\ heap'[PROFILE_REGISTER'[th[t].id]] = heap[th[t].mine]
            /\ ~th'[t].res.ok => PROFILE_REGISTER' = PROFILE_REGISTER

\* C12: the registry is insert-only and the first writer wins:
\* register_profile fails when the id is present and otherwise stores a
\* copy of the caller's Profile; the stored Profile and every Profile
\* get_profile returns equal the one first inserted, whatever the callers
\* do afterwards to their own Profile or to a copy; no id is ever removed.
C12_InsertOnly == []C12_StoredIsFirst /\ [][C12_Step]_vars

\* A thread holds a copy from get_profile that it has changed since.
C12_Witness ==
    \E t \in DOMAIN th :
        /\ th[t].res.op = "get" /\ th[t].res.found
        /\ th[t].got # 0
        /\ heap[th[t].got] # th[t].res.value
        /\ heap[PROFILE_REGISTER[th[t].res.id]] = th[t].res.value

\* The threads that hold the lock or are past it, inside their call.
InCall == {t \in DOMAIN th : th[t].pc \in {"reg_match", "reg_insert", "get_read", "unlock"}}

\* C13: at most one thread at a time is inside register_profile or
\* get_profile past the lock; of the register_profile calls for one id
\* exactly one succeeds and every other fails; and get_profile returns
\* nothing or the whole Profile of the call that succeeded.
C13_OneLock ==
    /\ Cardinality(InCall) <= 1
    /\ \A id \in ProfileIds :
          calls > 0 =>
            /\ hist.wins[id] <= 1
            /\ hist.fails[id] > 0 => hist.wins[id] = 1
            /\ (hist.wins[id] = 1) = (id \in DOMAIN PROFILE_REGISTER)
    /\ \A t \in DOMAIN th :
          (th[t].res.op = "get") =>
            IF th[t].res.found THEN th[t].res.value = hist.first[th[t].res.id]
            ELSE th[t].res.value = Unset

\* Two threads register the same id at once: one has inserted and still
\* holds the lock, the other has begun its call and waits for the lock.
C13_Witness ==
    \E t, u \in DOMAIN th :
        /\ t # u
        /\ lock = t
        /\ th[t].pc = "unlock" /\ th[t].res.op = "register" /\ th[t].res.ok
        /\ th[u].pc = "reg_lock"
        /\ th[u].id = th[t].res.id
        /\ hist.wins[th[u].id] = 1

\* ------------------------------------------------------------------------
\* Properties of Profile
\* ------------------------------------------------------------------------
\* The step is a call of populate_ear_extensions.
IsPopulate == steps' = steps + 1 /\ profile' = profile

\* The registry e has the declaration d: its name and its key reach one
\* slot, of the declared kind.
Declared(e, d) ==
    /\ have_name(e, d.name) /\ have_key(e, d.key)
    /\ e.by_name[d.name] = e.by_key[d.key]
    /\ get_kind_by_name(e, d.name) = d.kind

\* C14: populate_ear_extensions fails with an ID mismatch when the Ear's
\* profile is not the Profile's id, and then leaves the Ear and its submods
\* as they were; when it succeeds, every Ear-level declaration is registered
\* on the Ear's extensions and every Appraisal-level declaration on the
\* extensions of every submod, under its name and key and with its kind.
C14_Populate ==
    [][ IsPopulate =>
          /\ (target.profile # profile.id) =>
                /\ ~populated'.ok
                /\ populated'.err = "ID mismatch"
                /\ target' = target
          /\ populated'.ok =>
                /\ target.profile = profile.id
                /\ \A i \in DOMAIN profile.ear.entries :
                      Declared(target'.extensions, profile.ear.entries[i])
                /\ \A j \in DOMAIN target'.submods, i \in DOMAIN profile.appraisal.entries :
                      Declared(target'.submods[j][2].extensions, profile.appraisal.entries[i])
                /\ DOMAIN target'.submods = DOMAIN target.submods
      ]_vars

\* A Profile with a declaration of each level has populated an Ear of two
\* submods.
C14_Witness ==
    /\ steps = 3
    /\ populated.ok
    /\ Len(profile.ear.entries) = 1
    /\ Len(profile.appraisal.entries) = 1
    /\ Len(target.submods) = 2
    /\ Declared(target.submods[2][2].extensions, profile.appraisal.entries[1])

\* ------------------------------------------------------------------------
\* Properties of Ear::validate
\* ------------------------------------------------------------------------
\* The first condition of validity that the Ear violates, in the order in
\* which they are checked, or "none".
FirstViolated(e) ==
    IF e.profile = "" THEN "profile"
    ELSE IF e.submods = <<>> THEN "submods"
    ELSE IF e.iat = 0 THEN "iat"
    ELSE IF e.vid.build = "" THEN "verifier-id build"
    ELSE IF e.vid.developer = "" THEN "verifier-id developer"
    ELSE "none"

\* The condition that a reason string names.
ReasonNames(reason) ==
    CASE reason = "empty profile" -> "profile"
      [] reason = "empty submods" -> "submods"
      [] reason = "iat unset" -> "iat"
      [] reason = "verifier-id: empty build" -> "verifier-id build"
      [] reason = "verifier-id: empty developer" -> "verifier-id developer"
      [] OTHER -> "none"

\* C15: the validation that opens the serialization of an Ear passes
\* exactly when the profile is not empty, there is a submod, iat is not 0
\* and the verifier id has a build and a developer; when it fails, the
\* reason names the first of these conditions that is violated.
C15_Validate ==
    (wire.entity = "ear" /\ wire.by = "serialize") =>
        /\ (FirstViolated(ear) = "none") => ReasonNames(wire.err) = "none"
        /\ (FirstViolated(ear) # "none") =>
              ~wire.ok /\ ReasonNames(wire.err) = FirstViolated(ear)

\* ------------------------------------------------------------------------
\* Properties of the encoding of an Appraisal
\* ------------------------------------------------------------------------
\* The map w has an entry under the key f.
Emitted(w, f) == \E i \in 1..(Len(w.items) \div 2) : w.items[2 * i - 1] = f

\* The map w has its entries under the keys of the field table only, one
\* entry at most under each.
OfTheTable(w, hr) ==
    /\ \A i \in 1..(Len(w.items) \div 2) :
          w.items[2 * i - 1] \in
              { Field(hr, "ear.status", 1000),
                Field(hr, "ear.trustworthiness-vector", 1001),
                Field(hr, "ear.appraisal-policy-id", 1003),
                Field(hr, "ear.veraison.annotated-evidence", -70000),
                Field(hr, "ear.veraison.policy-claims", -70001),
                Field(hr, "ear.veraison.key-attestation", -70002) }
    /\ \A i, j \in 1..(Len(w.items) \div 2) :
          w.items[2 * i - 1] = w.items[2 * j - 1] => i = j

\* The fields of the Appraisal a but key_attestation are in the map w as the
\* field table has them.
FieldsButKeyAttestation(w, a, hr) ==
    /\ w.kind = "map"
    /\ OfTheTable(w, hr)
    /\ Emitted(w, Field(hr, "ear.status", 1000))
    /\ Emitted(w, Field(hr, "ear.trustworthiness-vector", 1001))
          <=> (\E f \in 1..8 : a.trust_vector[f] # None)
    /\ Emitted(w, Field(hr, "ear.appraisal-policy-id", 1003)) <=> (a.policy_id # None)
    /\ Emitted(w, Field(hr, "ear.veraison.annotated-evidence", -70000))
          <=> (a.annotated_evidence # <<>>)
    /\ Emitted(w, Field(hr, "ear.veraison.policy-claims", -70001))
          <=> (a.policy_claims # <<>>)

\* C16: the document of an Appraisal has status always, the trust vector
\* iff a claim is set, the policy id iff present, annotated evidence and
\* policy claims iff not empty, and the key attestation iff present, each
\* under its name in human-readable mode and its key in binary mode.
C16_FieldTable ==
    Written("appraisal") =>
        /\ wire.ok
        /\ FieldsButKeyAttestation(wire.value, ear.submods[1][2], is_human_readable)
        /\ Emitted(wire.value, Field(is_human_readable, "ear.veraison.key-attestation", -70002))
              <=> (ear.submods[1][2].key_attestation # None)

\* The field table but for its last row.
FieldTableButKeyAttestation ==
    Written("appraisal") =>
        /\ wire.ok
        /\ FieldsButKeyAttestation(wire.value, ear.submods[1][2], is_human_readable)

\* ------------------------------------------------------------------------
\* Properties of the encoding of a TrustVector
\* ------------------------------------------------------------------------
\* The entries of the map w under the key f.
EntriesUnder(w, f) == {i \in 1..(Len(w.items) \div 2) : w.items[2 * i - 1] = f}

\* The key of claim f in the mode hr: its name or its integer key.
ClaimField(f, hr) == Field(hr, ClaimDescs[f].name, ClaimDescs[f].key)

\* C17: the document of a TrustVector has one entry for each claim that is
\* set, a claim set to 0 included, with the claim's value, and none for a
\* claim that is unset; the entry is under the claim's name in
\* human-readable mode and under its integer key in binary mode.  The
\* document of an Appraisal has the trust vector iff some claim is set.
C17_SetClaimsOnly ==
    /\ (seen.op = "serialize") =>
          /\ seen.value.kind = "map"
          /\ \A f \in 1..8 :
                IF tv[f] # None
                THEN /\ Cardinality(EntriesUnder(seen.value, ClaimField(f, seen.hr))) = 1
                     /\ \A i \in EntriesUnder(seen.value, ClaimField(f, seen.hr)) :
                            seen.value.items[2 * i] = WInt(tv[f][1])
                ELSE EntriesUnder(seen.value, ClaimField(f, seen.hr)) = {}
          /\ \A i \in 1..(Len(seen.value.items) \div 2) :
                \E f \in 1..8 : seen.value.items[2 * i - 1] = ClaimField(f, seen.hr)
    /\ (seen.op = "appraisal") =>
          (Emitted(seen.value, Field(seen.hr, "ear.trustworthiness-vector", 1001))
             <=> (\E f \in 1..8 : tv[f] # None))

\* A vector with a claim set to 0, a claim set to 2 and the others unset
\* has been written in human-readable mode.
C17_Witness ==
    /\ seen.op = "serialize"
    /\ seen.hr
    /\ tv[1] = Some(0)
    /\ tv[8] = Some(2)
    /\ tv[3] = None
    /\ Len(seen.value.items) = 4

\* ------------------------------------------------------------------------
\* Properties of the order of a TrustVector
\* ------------------------------------------------------------------------
\* The claims in their order, 0 to 7.
ClaimOrder ==
    <<"instance-identity", "configuration", "executables", "file-system",
      "hardware", "runtime-opaque", "storage-opaque", "sourced-data">>

\* Claim i of the vector: its value, its key and its tag.
ClaimAt(i) == [value |-> tv[i + 1], key |-> i, tag |-> ClaimOrder[i + 1]]

\* The place in the order of the claim the key f of a document stands for.
PlaceOf(f, hr) == CHOOSE i \in 0..7 : f = Field(hr, ClaimOrder[i + 1], i)

\* C18: the claims of a TrustVector have one order, 0 to 7: iteration
\* yields the 8 claims in it, the document has the set claims in it, by_key
\* of i and by_name of the i-th name give claim i, whose key is i and whose
\* tag is that name, and any other key or name is an error, invalid key or
\* invalid name.
C18_OneOrder ==
    /\ (seen.op = "iter") =>
          /\ Len(seen.value) = 8
          /\ \A i \in 0..7 : seen.value[i + 1] = ClaimAt(i)
    /\ (seen.op = "serialize") =>
          /\ \A j \in 1..(Len(seen.value.items) \div 2) :
                \E i \in 0..7 : seen.value.items[2 * j - 1] = Field(seen.hr, ClaimOrder[i + 1], i)
          /\ \A j, k \in 1..(Len(seen.value.items) \div 2) :
                j < k => PlaceOf(seen.value.items[2 * j - 1], seen.hr)
                           < PlaceOf(seen.value.items[2 * k - 1], seen.hr)
    /\ (seen.op = "by_key") =>
          IF seen.key \in 0..7
          THEN seen.ok /\ seen.value = ClaimAt(seen.key)
          ELSE ~seen.ok /\ seen.err = "invalid key"
    /\ (seen.op = "by_name") =>
          IF \E i \in 0..7 : seen.name = ClaimOrder[i + 1]
          THEN /\ seen.ok
               /\ \A i \in 0..7 : seen.name = ClaimOrder[i + 1] => seen.value = ClaimAt(i)
          ELSE ~seen.ok /\ seen.err = "invalid name"

\* The claim of key 2 has been looked up in a vector whose claim 2 is set
\* and whose claim 3 is not.
C18_Witness ==
    /\ seen.op = "by_key"
    /\ seen.key = 2
    /\ seen.ok
    /\ tv[3] = Some(2)
    /\ tv[4] = None
    /\ tv[8] = Some(0)

\* ------------------------------------------------------------------------
\* Properties of Nonce
\* ------------------------------------------------------------------------
\* The element e of a Nonce cannot be written in the mode hr: a byte string
\* in human-readable mode, a text string in binary mode.
Mismatched(e, hr) == IF hr THEN e.kind = "Bytes" ELSE e.kind = "String"

\* The element e as it stands, a text string or a byte string.
Scalar(e) == IF e.kind = "String" THEN WText(e.s) ELSE WBytes(e.b)

\* C19: a Nonce with a byte string among its elements is not written in
\* human-readable mode, nor one with a text string in binary mode: the
\* encoding fails; any other Nonce of one element is written as that
\* element, and of several elements as the array of them in order.  An Ear
\* that carries a Nonce the mode cannot write is not written either.
C19_NoCoercion ==
    /\ (sent.op = "nonce") =>
          IF \E i \in DOMAIN nonce[1] : Mismatched(nonce[1][i], sent.hr)
          THEN ~sent.ok
          ELSE /\ sent.ok
               /\ Len(nonce[1]) = 1 => sent.value = Scalar(nonce[1][1])
               /\ Len(nonce[1]) > 1 =>
                     /\ sent.value.kind = "array"
                     /\ Len(sent.value.items) = Len(nonce[1])
                     /\ \A i \in DOMAIN nonce[1] : sent.value.items[i] = Scalar(nonce[1][i])
    /\ (sent.op = "ear") =>
          ((\E i \in DOMAIN nonce[1] : Mismatched(nonce[1][i], sent.hr)) => ~sent.ok)

\* An Ear whose nonce has a text string and then a byte string could not
\* be written in binary mode.
C19_Witness ==
    /\ sent.op = "ear"
    /\ ~sent.hr
    /\ ~sent.ok
    /\ nonce # None
    /\ Len(nonce[1]) = 2
    /\ nonce[1][1].kind = "String"
    /\ nonce[1][2].kind = "Bytes"

\* The length of the item x is in the range of its kind: 8 to 64 bytes,
\* 8 to 88 characters.
InRange(x) == IF x.kind = "text" THEN Len(x.s) \in 8..88 ELSE Len(x.b) \in 8..64

RangeError(x) ==
    IF x.kind = "text" THEN "nonce must be between 8 and 88 characters"
    ELSE "nonce must be between 8 and 64 bytes"

\* The first item of the input that is out of range.
FirstOffending(input) ==
    CHOOSE i \in DOMAIN input :
        ~InRange(input[i]) /\ \A j \in DOMAIN input : j < i => InRange(input[j])

\* The element of a Nonce made of the item x.
ElementOf(x) == IF x.kind = "text" THEN OneNonceString(x.s) ELSE OneNonceBytes(x.b)

EndsAccepted ==
    /\ made.ok
    /\ \/ made.op = "str" /\ Len(made.input[1].s) = 8
       \/ made.op = "bytes" /\ Len(made.input[1].b) = 64

\* ------------------------------------------------------------------------
\* Properties of signing and verification
\* ------------------------------------------------------------------------
JwtAlgorithms == {"PS256", "PS384", "PS512", "ES256", "ES384", "EdDSA"}
CoseAlgorithms == {"ES256", "ES384", "ES512", "EdDSA"}

\* The Ear is valid and its nonce can be written in the mode hr.
Signable(e, hr) == Valid(e) /\ NonceFits(e, hr)

\* The last signing was given a key of the family of its algorithm, and
\* an Ear that can be written.
WellSigned(op, hr) == token.op = op /\ token.key.good /\ Signable(ear, hr)

\* The last verification was given the public key of the pair that signed
\* the token, and the algorithm of the token, which is as it was signed.
WellVerified(op) ==
    /\ verified.op = op
    /\ verified.key.good
    /\ verified.key.alg = ""
    /\ verified.key.family = Matching(verified.alg)
    /\ token.value.state = "intact"
    /\ token.value.alg = verified.alg
    /\ token.value.pair = verified.key.pair

\* The call r was refused with an error.
Refused(r) == ~r.ok /\ r.variant # "panic"

\* The matrix of JWT signing, and of verification in both envelopes.
MatrixButCoseSigning ==
    /\ WellSigned("sign_jwt", TRUE) =>
          IF token.alg \in JwtAlgorithms THEN token.ok ELSE Refused(token)
    /\ WellVerified("from_jwt_jwk") =>
          IF verified.alg \in JwtAlgorithms THEN verified.ok ELSE Refused(verified)
    /\ WellVerified("from_cose_jwk") =>
          IF verified.alg \in CoseAlgorithms THEN verified.ok ELSE Refused(verified)

\* C21: with a key of the family of the algorithm, JWT signing and
\* verification accept PS256, PS384, PS512, ES256, ES384 and EdDSA and
\* refuse ES512 with an error; COSE signing and verification accept ES256,
\* ES384, ES512 and EdDSA and refuse PS256, PS384 and PS512 with an error.
C21_Matrix ==
    /\ MatrixButCoseSigning
    /\ WellSigned("sign_cose", FALSE) =>
          IF token.alg \in CoseAlgorithms THEN token.ok ELSE Refused(token)

\* COSE signing refuses ES512 as well.
CoseSigningAsCoded ==
    WellSigned("sign_cose", FALSE) =>
        IF token.alg \in CoseAlgorithms \ {"ES512"} THEN token.ok ELSE Refused(token)

\* The token given to the last verification was cut short or altered, or
\* the key given does not verify it.
BadTokenOrKey ==
    \/ token.value.state # "intact"
    \/ ~verified.key.good
    \/ verified.key.family # token.value.family
    \/ verified.key.pair # token.value.pair

\* C22: signing and verification return an Error and never panic; the
\* verification of a COSE token that is malformed, whose key is unusable or
\* whose signature does not verify returns a VerifyError or a KeyError.
C22_NoPanic ==
    /\ token.variant # "panic"
    /\ verified.variant # "panic"
    /\ (verified.op = "from_cose_jwk" /\ BadTokenOrKey /\ verified.alg \in CoseAlgorithms)
          => (~verified.ok /\ verified.variant \in {"VerifyError", "KeyError"})

\* JWT verification, and signing in both envelopes, do not panic.
NoPanicButFromCose ==
    /\ token.variant # "panic"
    /\ (verified.op = "from_jwt_jwk") => verified.variant # "panic"
    /\ (verified.op = "from_jwt_jwk" /\ BadTokenOrKey) => ~verified.ok

\* The token was signed here, and the last call verified it.
SignedAndVerified ==
    /\ token.op \in {"sign_jwt", "sign_cose"}
    /\ token.ok
    /\ verified.op \in {"from_jwt_jwk", "from_cose_jwk"}

\* C23: an Ear that is signed, as a JWT or as a COSE_Sign1 message, and
\* verified with the public key of the signing key and the same algorithm,
\* decodes to an Ear equal to the one signed, with its profile; with
\* another key, or when the token was altered, no Ear is returned.
C23_EndToEnd ==
    /\ (SignedAndVerified /\ WellVerified(verified.op)) =>
          /\ verified.ok
          /\ EarEq(verified.value, ear)
          /\ verified.value.profile = ear.profile
    /\ (SignedAndVerified /\ BadTokenOrKey) => ~verified.ok

\* The same of the Ears that have no key attestation.
EndToEndWithoutKeyAttestation == NoKeyAttestation(ear) => C23_EndToEnd

\* The Ear of the tests has been signed with ES256 in each envelope and
\* verified with the key of the pair.
TestEarVerified ==
    /\ ear = TestEar
    /\ SignedAndVerified
    /\ WellVerified(verified.op)
    /\ verified.alg = "ES256"
    /\ verified.ok
    /\ verified.value = TestEar

\* ------------------------------------------------------------------------
\* Properties of deserialization with a profile
\* ------------------------------------------------------------------------
\* The Profile registered under the id of the Ear.
ProfileOf(e) == heap[PROFILE_REGISTER[e.profile]]

\* C24: an Ear deserialized from a document whose profile is registered has
\* the Ear-level extensions of the Profile registered on it, and the
\* Appraisal-level ones on each of its submods; the document may carry
\* values for them, and is read none the less.
C24_ProfileApplied ==
    (back.entity = "ear" /\ ear.profile \in DOMAIN PROFILE_REGISTER) =>
        /\ wire.extra => back.ok
        /\ back.ok =>
              /\ "extensions" \in DOMAIN back.value
              /\ \A i \in DOMAIN ProfileOf(ear).ear.entries :
                    Declared(back.value.extensions, ProfileOf(ear).ear.entries[i])
              /\ \A j \in DOMAIN back.value.submods :
                    /\ "extensions" \in DOMAIN back.value.submods[j][2]
                    /\ \A i \in DOMAIN ProfileOf(ear).appraisal.entries :
                          Declared(back.value.submods[j][2].extensions,
                                   ProfileOf(ear).appraisal.entries[i])

\* A document of the registered profile has been read.
ProfiledRead ==
    /\ back.entity = "ear"
    /\ back.ok
    /\ ear.profile \in DOMAIN PROFILE_REGISTER
    /\ back.value.profile = "test"

\* ------------------------------------------------------------------------
\* The tiers at the boundaries
\* ------------------------------------------------------------------------
\* The tier asserted for each value of the unit test of tier().
TierPoints ==
    << <<1, "none">>, <<2, "affirming">>, <<31, "affirming">>, <<32, "warning">>,
       <<95, "warning">>, <<96, "contraindicated">>, <<-2, "affirming">>,
       <<-32, "affirming">>, <<-33, "warning">>, <<-96, "warning">>,
       <<-97, "contraindicated">> >>

\* C25: tier() of a claim set to -2 or -32 is Affirming, to -33 or -96
\* Warning, to -97 Contraindicated; to 1 None, to 2 or 31 Affirming, to 32
\* or 95 Warning, to 96 Contraindicated.
C25_TierPoints ==
    \A i \in DOMAIN TierPoints :
        (seen.op = "tier" /\ seen.value.claim = Some(TierPoints[i][1]))
            => seen.value.tier = TierPoints[i][2]

\* tier() has been asked of a claim set to -96, and answered Warning.
C25_Witness ==
    /\ seen.op = "tier"
    /\ seen.value.claim = Some(-96)
    /\ seen.value.tier = "warning"
    /\ tv[1] = Some(-96)

\* ------------------------------------------------------------------------
\* Properties of the status of an Appraisal
\* ------------------------------------------------------------------------
\* The least trustworthy of the tiers in S: the one latest in the order
\* None, Affirming, Warning, Contraindicated.
LeastTrustworthy(S) == CHOOSE t \in S : \A u \in S : TierIndex(u) <= TierIndex(t)

\* The tiers of the 8 claims of the Appraisal a.
ClaimTiers(a) == {tier(a.trust_vector[f]) : f \in 1..8}

\* The Appraisal b is the Appraisal a with only its status changed, to the
\* least trustworthy tier among the status and the claims of a.
Updated(a, b) ==
    /\ b = [a EXCEPT !.status = b.status]
    /\ b.status = LeastTrustworthy({a.status} \cup ClaimTiers(a))
    /\ TierIndex(b.status) >= TierIndex(a.status)
    /\ \A t \in ClaimTiers(b) : TierIndex(b.status) >= TierIndex(t)

\* C26: update_status_from_trust_vector of an Appraisal sets its status to
\* the least trustworthy tier among its status and the tiers of its 8
\* claims, never to a more trustworthy one than before, and a second call
\* changes nothing; setting a claim leaves the status as it was; the
\* update of an Ear updates the submods whose status is None and leaves
\* the others as they were.
C26_StatusUpdate ==
    [][ /\ DOMAIN ear'.submods = DOMAIN ear.submods
        /\ (seen'.op = "update_appraisal") =>
              \A j \in DOMAIN ear.submods :
                  IF j = seen'.key
                  THEN Updated(ear.submods[j][2], ear'.submods[j][2])
                  ELSE ear'.submods[j] = ear.submods[j]
        /\ (seen.op = "update_appraisal" /\ seen'.op = "update_appraisal"
               /\ seen'.key = seen.key) => ear' = ear
        /\ (seen'.op = "set_claim") =>
              \A j \in DOMAIN ear.submods :
                  ear'.submods[j][2].status = ear.submods[j][2].status
        /\ (seen'.op = "update_ear") =>
              \A j \in DOMAIN ear.submods :
                  IF ear.submods[j][2].status = "none"
                  THEN Updated(ear.submods[j][2], ear'.submods[j][2])
                  ELSE ear'.submods[j] = ear.submods[j]
      ]_vars

\* The Ear was updated: the status of the submod whose status was None is
\* now that of its worst claim, and the submod of status Affirming with a
\* Contraindicated claim is as it was.
C26_Witness ==
    /\ seen.op = "update_ear"
    /\ Len(ear.submods) = 2
    /\ ear.submods[1][2].status = "warning"
    /\ ear.submods[1][2].trust_vector[1] = Some(2)
    /\ ear.submods[1][2].trust_vector[8] = Some(32)
    /\ ear.submods[2][2].status = "affirming"
    /\ ear.submods[2][2].trust_vector[1] = Some(-97)

\* ------------------------------------------------------------------------
\* Properties of the slots of an Extensions
\* ------------------------------------------------------------------------
\* The value of the slot is Unset or of the slot's declared kind.
SlotTyped(slot) == Is(slot.value, "Unset") \/ Is(slot.value, slot.kind)

\* C27: over every call of register, set_by_name, set_by_key and the two
\* visit_map_entry, successful or failed: a slot keeps the kind it was
\* registered with (a new slot has the kind of the successful register
\* that made it), the value of every slot is Unset or of the declared
\* kind, and a set value of a slot whose kind is not Unset never goes
\* back to Unset.
C27_SlotTyping ==
    [][ /\ \A i \in DOMAIN ext.slots :
              /\ i \in DOMAIN ext'.slots
              /\ ext'.slots[i].kind = ext.slots[i].kind
              /\ (ext.slots[i].kind # "Unset" /\ ~Is(ext.slots[i].value, "Unset"))
                    => ~Is(ext'.slots[i].value, "Unset")
        /\ \A i \in DOMAIN ext'.slots \ DOMAIN ext.slots :
              /\ last'.op = "register"
              /\ last'.ok
              /\ ext'.slots[i].kind = last'.kind
        /\ \A i \in DOMAIN ext'.slots : SlotTyped(ext'.slots[i])
      ]_vars

\* A Bytes slot took its value by conversion of a collected String when
\* it was registered, and a later call to set it to Unset by name failed.
C27_Witness ==
    /\ last.op = "set_by_name"
    /\ ~last.ok
    /\ last.value = Unset
    /\ have_name(ext, last.name)
    /\ ext.slots[ext.by_name[last.name]] = ExtensionEntry("Bytes", BytesV(DeadBeef))
    /\ ext.collected # << >>

\* ------------------------------------------------------------------------
\* Properties of the declarations of a Profile
\* ------------------------------------------------------------------------
\* No two of the declarations have the same name or the same key.
NoDuplicates(entries) ==
    \A i, j \in DOMAIN entries :
        i # j => entries[i].name # entries[j].name /\ entries[i].key # entries[j].key

\* An Ear of the Profile p on which nothing is registered yet.
FreshEar(p) ==
    [profile |-> p.id, extensions |-> NewExtensions,
     submods |-> << <<"test", PopAppraisal>> >>]

AlreadyRegisteredErrors == {"name already registered", "key already registered"}

\* C28: neither list of declarations of a Profile holds two entries with
\* the same name or the same key, and populate_ear_extensions on an Ear
\* with nothing registered does not fail with "already registered".
C28_NoDuplicateDeclarations ==
    /\ NoDuplicates(profile.ear.entries)
    /\ NoDuplicates(profile.appraisal.entries)
    /\ populate_ear_extensions(profile, FreshEar(profile)).res.err
          \notin AlreadyRegisteredErrors

\* What holds of the declarations as coded: every call of
\* register_ear_extension and register_appraisal_extension succeeds and
\* appends its declaration, and names and keys stay empty.
DeclarationsAsCoded ==
    /\ profile.ear.names = {} /\ profile.ear.keys = {}
    /\ profile.appraisal.names = {} /\ profile.appraisal.keys = {}
    /\ \A d \in Decls :
          /\ register_ear_extension(profile, d[1], d[2], d[3]).res.ok
          /\ register_ear_extension(profile, d[1], d[2], d[3]).ext.ear.entries
                = Append(profile.ear.entries, RegisterEntry(d[1], d[2], d[3]))
          /\ register_appraisal_extension(profile, d[1], d[2], d[3]).res.ok
    /\ NoDuplicates(profile.ear.entries) /\ NoDuplicates(profile.appraisal.entries)
          => populate_ear_extensions(profile, FreshEar(profile)).res.ok

\* The same declaration was made twice for the Ear, and populating an Ear
\* with nothing registered failed.
DeclaredTwice ==
    /\ Len(profile.ear.entries) = 2
    /\ profile.ear.entries[1] = profile.ear.entries[2]
    /\ target.extensions.slots # << >>
    /\ ~populated.ok
    /\ populated.err = "name already registered"

\* ------------------------------------------------------------------------
\* Properties of the equality of Extensions
\* ------------------------------------------------------------------------
\* a and b register the same names and the same keys, with equal values.
SameContent(a, b) ==
    /\ DOMAIN a.by_name = DOMAIN b.by_name
    /\ DOMAIN a.by_key = DOMAIN b.by_key
    /\ \A name \in DOMAIN a.by_name : get_by_name(a, name) = get_by_name(b, name)
    /\ \A key \in DOMAIN a.by_key : get_by_key(a, key) = get_by_key(b, key)

\* C29: a == b holds iff b == a does, and a == b implies that a and b
\* register the same names and keys with equal values.
C29_EqualityIsEquivalence ==
    equal.done =>
        /\ equal.ab <=> equal.ba
        /\ equal.ab => SameContent(ext, other)

\* What holds of the equality as coded: a == b holds exactly when every
\* name and key of a is registered in b with an equal value, whatever else
\* b registers; the content is the same when it holds both ways round; and
\* a == a.
EqualityAsCoded ==
    /\ ExtensionsEq(ext, ext)
    /\ equal.done =>
          /\ (equal.ab /\ equal.ba) <=> SameContent(ext, other)
          /\ equal.ab <=>
                /\ DOMAIN ext.by_name \subseteq DOMAIN other.by_name
                /\ DOMAIN ext.by_key \subseteq DOMAIN other.by_key
                /\ \A name \in DOMAIN ext.by_name :
                      get_by_name(ext, name) = get_by_name(other, name)
                /\ \A key \in DOMAIN ext.by_key :
                      get_by_key(ext, key) = get_by_key(other, key)

\* An Extensions with nothing registered was found equal to one with a
\* slot set, and not the other way round.
EqualOneWay ==
    /\ equal.done
    /\ equal.ab
    /\ ~equal.ba
    /\ ext = NewExtensions
    /\ get_by_name(other, "foo") = Some(StringV("bar"))

\* ------------------------------------------------------------------------
\* Properties of the elements of a Nonce
\* ------------------------------------------------------------------------
\* The element on of a Nonce has 8 to 64 bytes, or 8 to 88 characters.
ElementInRange(on) ==
    IF on.kind = "Bytes" THEN Len(on.b) \in 8..64 ELSE Len(on.s) \in 8..88

\* The calls that make a Nonce of one value, and those that make it of a
\* list of values.
OfOne == {"str", "bytes", "decode"}
OfMany == {"str_slice", "bytes_slice", "decode_seq"}

====
